---- MODULE Spec2Model ----
(***************************************************************************)
(* Model of the AI Practitioner's Path single-page shell: the progress     *)
(* store (js/progress.js), the localStorage read patch and the bootstrap   *)
(* of app.js.                                                              *)
(*                                                                         *)
(* JavaScript values are represented as follows.                           *)
(*  - A property key, and every argument that the code only ever passes to *)
(*    parseInt or uses as a property key, is the sequence of the one-char  *)
(*    strings of its ToString form: the number 4 and the string "4" are    *)
(*    both <<"4">>, the string "2x" is <<"2","x">>.                        *)
(*  - An object is a function whose domain is its set of own keys.         *)
(*  - A timestamp is an integer on a scaled-down clock (see FloorDate).    *)
(***************************************************************************)
EXTENDS Integers, Sequences, FiniteSets

VARIABLES progress, storage, listeners, now, getItemPatched, quotaExceeded, lastOp,
          cache, fetches, currentPage, mainContent, loading,
          expanded, theme, storedTheme, indicators

\* the displayed theme, the item stored under the key 'theme' and the
\* progress indicators of header and sidebar
decor == <<theme, storedTheme, indicators>>

\* the content loader's cache, the fetches in flight, and the router's route,
\* main content container and loading indicator, the missions whose module
\* list is expanded in the sidebar, and the decor
shell == <<cache, fetches, currentPage, mainContent, loading, expanded,
           theme, storedTheme, indicators>>

vars == <<progress, storage, listeners, now, getItemPatched, quotaExceeded, lastOp,
          cache, fetches, currentPage, mainContent, loading,
          expanded, theme, storedTheme, indicators>>

(***************************************************************************)
(* Bounds of the model.                                                    *)
(***************************************************************************)
\* largest reading of the clock
MaxNow == 4
\* a call that adds an entry to a record of this many entries is not explored
MaxEntries == 1
\* largest number of registered 'progressUpdate' callbacks
MaxListeners == 2
\* largest number of content fetches in flight
MaxFetches == 2
\* largest number of fetches in flight where the module buttons are followed
MaxNavigations == 1

(***************************************************************************)
(* Course structure (ProgressTracker constructor).                         *)
(***************************************************************************)
totalMissions == 5

modulesPerMission == [m \in 1..5 |-> IF m = 4 THEN 4 ELSE 3]

\* new Date('2020-01-01').getTime() on the scaled-down clock
FloorDate == 2

(***************************************************************************)
(* Keys and parseInt.                                                      *)
(***************************************************************************)
DigitChars == <<"0", "1", "2", "3", "4", "5", "6", "7", "8", "9">>

IsDigit(c) == \E i \in 1..10 : DigitChars[i] = c

DigitVal(c) == (CHOOSE i \in 1..10 : DigitChars[i] = c) - 1

NaN == [nan |-> TRUE, v |-> 0]

RECURSIVE ParseDigits(_, _, _)
ParseDigits(s, acc, seen) ==
    IF s = <<>> \/ ~IsDigit(Head(s))
    THEN IF seen THEN [nan |-> FALSE, v |-> acc] ELSE NaN
    ELSE ParseDigits(Tail(s), acc * 10 + DigitVal(Head(s)), TRUE)

\* parseInt(x): optional sign, then the longest prefix of decimal digits;
\* NaN when there is none.  (No key of the model starts with blanks or "0x".)
ParseInt(s) ==
    IF s # <<>> /\ Head(s) = "-"
    THEN LET p == ParseDigits(Tail(s), 0, FALSE)
         IN  IF p.nan THEN NaN ELSE [nan |-> FALSE, v |-> 0 - p.v]
    ELSE ParseDigits(s, 0, FALSE)

RECURSIVE NumberToString(_)
\* ToString of a non-negative integer (the key a number is stored under)
NumberToString(n) ==
    IF n < 10 THEN <<DigitChars[n + 1]>>
    ELSE NumberToString(n \div 10) \o <<DigitChars[(n % 10) + 1]>>

\* the JavaScript test  !x || x < 1 || x > max  on a parseInt result
OutOfRange(p, max) == p.nan \/ p.v = 0 \/ p.v < 1 \/ p.v > max

(***************************************************************************)
(* Objects.                                                                *)
(***************************************************************************)
EmptyObj == [k \in {} |-> 0]

Put(o, k, v) == [j \in (DOMAIN o) \cup {k} |-> IF j = k THEN v ELSE o[j]]

Delete(o, k) == [j \in (DOMAIN o) \ {k} |-> o[j]]

\* keys that are not array indices, in the order in which the model assumes
\* they were inserted (no two of them parse to the same integer)
OtherKeysOrder == << <<"1", "x">>, <<"2", "x">>, <<"a", "b", "c">>,
                     <<"d", "a", "t", "a">>,
                     <<"e", "x", "p", "o", "r", "t", "e", "d", "A", "t">>,
                     <<"v", "e", "r", "s", "i", "o", "n">> >>

\* largest array-index key of the model
MaxIndexKey == 9

\* Object.entries / Object.keys order: array-index keys ascending, then the
\* other string keys in insertion order
EntriesOrder(S) ==
    SelectSeq([i \in 1..(MaxIndexKey + 1) |-> NumberToString(i - 1)], LAMBDA k : k \in S)
    \o SelectSeq(OtherKeysOrder, LAMBDA k : k \in S)

(***************************************************************************)
(* JSON documents: what a stored string or an import argument denotes.     *)
(*   kind "absent"  : no item under the key (getItem gives null)           *)
(*   kind "garbage" : a string JSON.parse throws on                        *)
(*   kind "scalar"  : JSON null, a number, a string or a boolean           *)
(*   kind "object"  : an object; obj maps each key to a value              *)
(*        [isObj, mods]: isObj says the value is a non-null object, mods   *)
(*        maps its keys to [isNum, v]: a number v, or some other value.    *)
(***************************************************************************)
Absent == [kind |-> "absent", obj |-> EmptyObj]

Garbage == [kind |-> "garbage", obj |-> EmptyObj]

Scalar == [kind |-> "scalar", obj |-> EmptyObj]

ObjDoc(o) == [kind |-> "object", obj |-> o]

Num(n) == [isNum |-> TRUE, v |-> n]

NotNum == [isNum |-> FALSE, v |-> 0]

Mods(ms) == [isObj |-> TRUE, mods |-> ms]

NotObj == [isObj |-> FALSE, mods |-> EmptyObj]

\* the in-memory record seen as a JavaScript value
AsData(p) == [k \in DOMAIN p |-> Mods([j \in DOMAIN p[k] |-> Num(p[k][j])])]

\* a validated JavaScript value taken as the in-memory record
AsRecord(o) == [k \in DOMAIN o |-> [j \in DOMAIN o[k].mods |-> o[k].mods[j].v]]

\* JSON.stringify(this.progress)
Stringify(p) == ObjDoc(AsData(p))

(***************************************************************************)
(* Validation (progress.js).                                               *)
(***************************************************************************)
isValidTimestamp(t, clock) ==
    t.isNum /\ t.v > 0 /\ t.v <= clock /\ t.v > FloorDate

isValidProgressData(doc, clock) ==
    /\ doc.kind = "object"
    /\ \A mk \in DOMAIN doc.obj :
        LET mission == ParseInt(mk)
            modules == doc.obj[mk]
        IN  /\ ~OutOfRange(mission, totalMissions)
            /\ modules.isObj
            /\ \A nk \in DOMAIN modules.mods :
                /\ ~OutOfRange(ParseInt(nk), modulesPerMission[mission.v])
                /\ isValidTimestamp(modules.mods[nk], clock)

isValidMission(mission) ==
    LET missionNum == ParseInt(mission)
    IN  ~missionNum.nan /\ missionNum.v >= 1 /\ missionNum.v <= totalMissions

\* mutant: every mission is taken to have three modules
isValidMissionModule_threeEach(mission, module) ==
    /\ isValidMission(mission)
    /\ LET moduleNum == ParseInt(module)
       IN  ~moduleNum.nan /\ moduleNum.v >= 1 /\ moduleNum.v <= 3

isValidMissionModule(mission, module) ==
    /\ isValidMission(mission)
    /\ LET moduleNum == ParseInt(module)
           maxModules == modulesPerMission[ParseInt(mission).v]
       IN  ~moduleNum.nan /\ moduleNum.v >= 1 /\ moduleNum.v <= maxModules

\* isModuleComplete on a record p
isModuleCompleteIn(p, mission, module) ==
    /\ isValidMissionModule(mission, module)
    /\ mission \in DOMAIN p
    /\ module \in DOMAIN p[mission]
    /\ p[mission][module] # 0

isModuleComplete(mission, module) == isModuleCompleteIn(progress, mission, module)

\* this.courseStructure.modulesPerMission[mission]: the property is looked up
\* under the argument as it is, so only the decimal form of 1..5 finds a
\* count; 0 stands for undefined, with which "module <= maxModules" is false
maxModulesOf(mission) ==
    IF \E m \in 1..totalMissions : mission = NumberToString(m)
    THEN modulesPerMission[ParseInt(mission).v]
    ELSE 0

isMissionCompleteIn(p, mission) ==
    IF ~isValidMission(mission) THEN FALSE
    ELSE \A module \in 1..maxModulesOf(mission) :
            isModuleCompleteIn(p, mission, NumberToString(module))

isMissionComplete(mission) == isMissionCompleteIn(progress, mission)

RECURSIVE getTotalModulesFrom(_)
getTotalModulesFrom(mission) ==
    IF mission > totalMissions THEN 0
    ELSE modulesPerMission[mission] + getTotalModulesFrom(mission + 1)

getTotalModules == getTotalModulesFrom(1)

\* the two nested loops of getCompletedModules, from (mission, module) on
RECURSIVE getCompletedModulesFrom(_, _, _)
getCompletedModulesFrom(p, mission, module) ==
    IF mission > totalMissions THEN 0
    ELSE IF module > modulesPerMission[mission]
         THEN getCompletedModulesFrom(p, mission + 1, 1)
         ELSE (IF isModuleCompleteIn(p, NumberToString(mission), NumberToString(module))
               THEN 1 ELSE 0)
              + getCompletedModulesFrom(p, mission, module + 1)

getCompletedModules(p) == getCompletedModulesFrom(p, 1, 1)

\* Math.round((completed / total) * 100), which is floor(x + 1/2); the
\* quotient and the product are exact in binary floating point for the
\* total of 16
MathRoundPercent(completed, total) == (200 * completed + total) \div (2 * total)

\* Math.floor in the place of Math.round
getOverallProgress_floor(p) ==
    IF getTotalModules = 0 THEN 0
    ELSE (100 * getCompletedModules(p)) \div getTotalModules

getOverallProgress(p) ==
    IF getTotalModules = 0 THEN 0
    ELSE MathRoundPercent(getCompletedModules(p), getTotalModules)

\* what getNextRecommendedModule returns: null or { mission, module }
Null == [isNull |-> TRUE, mission |-> 0, module |-> 0]

Recommended(mission, module) == [isNull |-> FALSE, mission |-> mission, module |-> module]

\* every mission is searched up to its third module
RECURSIVE getNextRecommendedModuleFrom_threeEach(_, _, _)
getNextRecommendedModuleFrom_threeEach(p, mission, module) ==
    IF mission > totalMissions THEN Null
    ELSE IF module > 3
         THEN getNextRecommendedModuleFrom_threeEach(p, mission + 1, 1)
         ELSE IF ~isModuleCompleteIn(p, NumberToString(mission), NumberToString(module))
              THEN Recommended(mission, module)
              ELSE getNextRecommendedModuleFrom_threeEach(p, mission, module + 1)

getNextRecommendedModule_threeEach(p) ==
    getNextRecommendedModuleFrom_threeEach(p, 1, 1)

\* the two nested loops of getNextRecommendedModule, from (mission, module) on
RECURSIVE getNextRecommendedModuleFrom(_, _, _)
getNextRecommendedModuleFrom(p, mission, module) ==
    IF mission > totalMissions THEN Null
    ELSE IF module > modulesPerMission[mission]
         THEN getNextRecommendedModuleFrom(p, mission + 1, 1)
         ELSE IF ~isModuleCompleteIn(p, NumberToString(mission), NumberToString(module))
              THEN Recommended(mission, module)
              ELSE getNextRecommendedModuleFrom(p, mission, module + 1)

getNextRecommendedModule(p) ==
    getNextRecommendedModuleFrom(p, 1, 1)

(***************************************************************************)
(* The steps of the store's methods work on a frame                        *)
(*   [progress, storage, saved, notified, ret, raised]                     *)
(* progress and storage are the record and the stored item as the method   *)
(* has left them so far, saved counts the setItem calls that completed and *)
(* notified lists, per callback run, what that callback could observe; ret *)
(* is the value the method returns and raised tells that it ended with an  *)
(* exception instead.                                                      *)
(***************************************************************************)
Frame(p, s) ==
    [progress |-> p, storage |-> s, saved |-> 0, notified |-> <<>>, ret |-> TRUE,
     raised |-> FALSE]

\* the callbacks that throw when they are called
Throwers == {"cbThrows"}

\* saveProgress without the try/catch: what setItem throws ends the method
saveProgress_noCatch(st, setItemOk) ==
    IF setItemOk
    THEN [st EXCEPT !.storage = Stringify(st.progress), !.saved = @ + 1]
    ELSE [st EXCEPT !.raised = TRUE]

\* saveProgress: setItem either stores the serialized record or throws
\* (quota, storage disabled), which is caught and logged
saveProgress(st, setItemOk) ==
    IF setItemOk
    THEN [st EXCEPT !.storage = Stringify(st.progress), !.saved = @ + 1]
    ELSE st

\* forEach without the try/catch: the first callback that throws ends the
\* loop and the method
emit_noCatch(st, ls) ==
    LET ran == IF \E i \in 1..Len(ls) : ls[i] \in Throwers
               THEN CHOOSE i \in 1..Len(ls) :
                       /\ ls[i] \in Throwers
                       /\ \A j \in 1..(i - 1) : ls[j] \notin Throwers
               ELSE Len(ls)
    IN  [st EXCEPT !.notified = @ \o
            [i \in 1..ran |->
                [cb |-> ls[i],
                 synced |-> st.storage = Stringify(st.progress),
                 saved |-> st.saved,
                 threw |-> ls[i] \in Throwers]],
                   !.raised = \E i \in 1..Len(ls) : ls[i] \in Throwers]

\* on(event, callback): the callback is pushed onto the array of the event
on(ls, callback) == Append(ls, callback)

\* off(event, callback): the first occurrence of the callback is spliced out
\* of the array, which stays the same array
off(ls, callback) ==
    IF \E i \in 1..Len(ls) : ls[i] = callback
    THEN LET index == CHOOSE i \in 1..Len(ls) :
                         /\ ls[i] = callback
                         /\ \A j \in 1..(i - 1) : ls[j] # callback
         IN  SubSeq(ls, 1, index - 1) \o SubSeq(ls, index + 1, Len(ls))
    ELSE ls

\* what a callback does to the array of subscribers when it is called:
\* cbOffSelf unsubscribes itself, cbOffCb1 unsubscribes cb1, cbOnCb1
\* subscribes cb1 (as long as the array has room), every other callback
\* leaves the array alone
Reaction(callback, ls) ==
    IF callback = "cbOffSelf" THEN off(ls, callback)
    ELSE IF callback = "cbOffCb1" THEN off(ls, "cb1")
    ELSE IF callback = "cbOnCb1" /\ Len(ls) <= MaxListeners THEN on(ls, "cb1")
    ELSE ls

\* Array.prototype.forEach over the array of subscribers itself: the length
\* is read once at the start, the element at each index is read when the
\* loop gets there, and an index the array no longer has is passed over
RECURSIVE forEach(_, _, _, _)
forEach(ls, index, length, ran) ==
    IF index > length THEN [listeners |-> ls, ran |-> ran]
    ELSE IF index > Len(ls) THEN forEach(ls, index + 1, length, ran)
    ELSE forEach(Reaction(ls[index], ls), index + 1, length, Append(ran, ls[index]))

\* the array of subscribers after emit('progressUpdate')
AfterEmit(ls) == forEach(ls, 1, Len(ls), <<>>).listeners

\* emit('progressUpdate'): forEach over the registered callbacks, in order;
\* what a callback throws is caught and logged
emit(st, ls) ==
    LET ran == forEach(ls, 1, Len(ls), <<>>).ran
    IN  [st EXCEPT !.notified = @ \o
            [i \in 1..Len(ran) |->
                [cb |-> ran[i],
                 synced |-> st.storage = Stringify(st.progress),
                 saved |-> st.saved,
                 threw |-> ran[i] \in Throwers]]]

(***************************************************************************)
(* app.js: validateProgressData and the patched localStorage.getItem.      *)
(***************************************************************************)
RECURSIVE vpdModules(_, _, _, _)
vpdModules(keys, mods, maxModules, acc) ==
    IF keys = <<>> THEN acc
    ELSE LET moduleNum == ParseInt(Head(keys))
             timestamp == mods[Head(keys)]
         IN  IF moduleNum.nan \/ moduleNum.v < 1 \/ moduleNum.v > maxModules
             THEN vpdModules(Tail(keys), mods, maxModules, acc)
             ELSE IF timestamp.isNum /\ timestamp.v > 0
                  THEN vpdModules(Tail(keys), mods, maxModules,
                                  Put(acc, NumberToString(moduleNum.v), timestamp))
                  ELSE vpdModules(Tail(keys), mods, maxModules, acc)

RECURSIVE vpdMissions(_, _, _)
vpdMissions(keys, data, validated) ==
    IF keys = <<>> THEN validated
    ELSE LET missionNum == ParseInt(Head(keys))
             modules == data[Head(keys)]
         IN  IF missionNum.nan \/ missionNum.v < 1 \/ missionNum.v > 5
             THEN vpdMissions(Tail(keys), data, validated)
             ELSE IF modules.isObj
                  THEN vpdMissions(Tail(keys), data,
                         Put(validated, NumberToString(missionNum.v),
                             Mods(vpdModules(EntriesOrder(DOMAIN modules.mods),
                                             modules.mods,
                                             IF missionNum.v = 4 THEN 4 ELSE 3,
                                             EmptyObj))))
                  ELSE vpdMissions(Tail(keys), data, validated)

validateProgressData(doc) ==
    IF doc.kind # "object" THEN EmptyObj
    ELSE vpdMissions(EntriesOrder(DOMAIN doc.obj), doc.obj, EmptyObj)

\* localStorage.getItem('ai-practitioner-progress'): the value handed to the
\* caller and the stored item afterwards.  Unpatched, it is the stored item.
getItem(s, patched) ==
    IF ~patched \/ s.kind = "absent"
    THEN [value |-> s, storage |-> s]
    ELSE IF s.kind = "garbage"
         THEN [value |-> ObjDoc(EmptyObj), storage |-> Absent]
         ELSE [value |-> ObjDoc(validateProgressData(s)), storage |-> s]

(***************************************************************************)
(* progress.js: loadProgress, validateProgress, init.                      *)
(***************************************************************************)
loadProgress(st, patched, clock, setItemOk) ==
    LET got == getItem(st.storage, patched)
        stored == got.value
        st1 == [st EXCEPT !.storage = got.storage]
    IN  IF stored.kind = "absent" THEN st1
        ELSE IF stored.kind = "garbage"
             THEN [st1 EXCEPT !.progress = EmptyObj]
             ELSE IF isValidProgressData(stored, clock)
                  THEN [st1 EXCEPT !.progress = AsRecord(stored.obj)]
                  ELSE saveProgress([st1 EXCEPT !.progress = EmptyObj], setItemOk)

\* the modules of one mission that validateProgress keeps
KeptModules(modules, maxModules, clock) ==
    [nk \in {k \in DOMAIN modules :
                /\ ~OutOfRange(ParseInt(k), maxModules)
                /\ isValidTimestamp(Num(modules[k]), clock)} |-> modules[nk]]

\* the record validateProgress leaves behind
Cleaned(p, clock) ==
    LET keep(mk) == KeptModules(p[mk], modulesPerMission[ParseInt(mk).v], clock)
        missions == {mk \in DOMAIN p :
                        /\ ~OutOfRange(ParseInt(mk), totalMissions)
                        /\ DOMAIN keep(mk) # {}}
    IN  [mk \in missions |-> keep(mk)]

validateProgress(st, ls, clock, setItemOk) ==
    LET cleaned == Cleaned(st.progress, clock)
        hasChanges == cleaned # st.progress
    IN  IF hasChanges
        THEN emit(saveProgress([st EXCEPT !.progress = cleaned], setItemOk), ls)
        ELSE st

init(st, ls, patched, clock, setItemOk) ==
    validateProgress(loadProgress(st, patched, clock, setItemOk), ls, clock, setItemOk)

(***************************************************************************)
(* progress.js: the mutating methods and the snapshot pair.                *)
(***************************************************************************)
\* mutant: the callbacks run before the record is written
setModuleCompletion_emitFirst(st, ls, mission, module, completed, clock, setItemOk) ==
    IF ~isValidMissionModule(mission, module)
    THEN [st EXCEPT !.ret = FALSE]
    ELSE LET p == st.progress
             marked == Put(p, mission,
                           Put(IF mission \in DOMAIN p THEN p[mission] ELSE EmptyObj,
                               module, clock))
             removed == IF mission \in DOMAIN p
                        THEN IF DOMAIN Delete(p[mission], module) = {}
                             THEN Delete(p, mission)
                             ELSE Put(p, mission, Delete(p[mission], module))
                        ELSE p
             st1 == [st EXCEPT !.progress = IF completed THEN marked ELSE removed]
         IN  saveProgress(emit(st1, ls), setItemOk)

\* marking a slot complete that is complete already clears it
setModuleCompletion_toggle(st, ls, mission, module, completed, clock, setItemOk) ==
    IF ~isValidMissionModule(mission, module)
    THEN [st EXCEPT !.ret = FALSE]
    ELSE LET p == st.progress
             marked == Put(p, mission,
                           Put(IF mission \in DOMAIN p THEN p[mission] ELSE EmptyObj,
                               module, clock))
             removed == IF mission \in DOMAIN p
                        THEN IF DOMAIN Delete(p[mission], module) = {}
                             THEN Delete(p, mission)
                             ELSE Put(p, mission, Delete(p[mission], module))
                        ELSE p
             st1 == [st EXCEPT !.progress =
                        IF completed /\ ~isModuleCompleteIn(p, mission, module)
                        THEN marked ELSE removed]
         IN  emit(saveProgress(st1, setItemOk), ls)

setModuleCompletion(st, ls, mission, module, completed, clock, setItemOk) ==
    IF ~isValidMissionModule(mission, module)
    THEN [st EXCEPT !.ret = FALSE]
    ELSE LET p == st.progress
             marked == Put(p, mission,
                           Put(IF mission \in DOMAIN p THEN p[mission] ELSE EmptyObj,
                               module, clock))
             removed == IF mission \in DOMAIN p
                        THEN IF DOMAIN Delete(p[mission], module) = {}
                             THEN Delete(p, mission)
                             ELSE Put(p, mission, Delete(p[mission], module))
                        ELSE p
             st1 == [st EXCEPT !.progress = IF completed THEN marked ELSE removed]
         IN  emit(saveProgress(st1, setItemOk), ls)

\* resetProgress without the test of the confirmation flag
resetProgress_unconfirmed(st, ls, confirm, setItemOk) ==
    emit(saveProgress([st EXCEPT !.progress = EmptyObj], setItemOk), ls)

resetProgress(st, ls, confirm, setItemOk) ==
    IF ~confirm
    THEN [st EXCEPT !.ret = FALSE]
    ELSE emit(saveProgress([st EXCEPT !.progress = EmptyObj], setItemOk), ls)

importProgress(st, ls, progressData, clock, setItemOk) ==
    IF ~isValidProgressData(progressData, clock)
    THEN [st EXCEPT !.ret = FALSE]
    ELSE emit(saveProgress([st EXCEPT !.progress = AsRecord(progressData.obj)],
                           setItemOk), ls)

exportProgress(p, clock) == [data |-> p, exportedAt |-> clock, version |-> "1.0"]

\* the value exportProgress returns, as isValidProgressData inspects it when
\* it is passed to importProgress: three keys, of which "data" holds an
\* object (whose values are objects, not numbers) and the other two hold a
\* number and a string
ExportedAsData(e) ==
    ObjDoc([k \in {<<"d", "a", "t", "a">>,
                   <<"e", "x", "p", "o", "r", "t", "e", "d", "A", "t">>,
                   <<"v", "e", "r", "s", "i", "o", "n">>} |->
              IF k = <<"d", "a", "t", "a">>
              THEN Mods([mk \in DOMAIN e.data |-> NotNum])
              ELSE NotObj])

(***************************************************************************)
(* HTML.  A fragment is the sequence of the elements it parses to; an      *)
(* element is [tag, attrs, kids] with attrs the sequence of its attribute  *)
(* names, in document order, and kids the fragment inside it.  Tag and     *)
(* attribute names are sequences of one-char strings.  Text is left out.   *)
(***************************************************************************)
El(tag, attrs, kids) == [tag |-> tag, attrs |-> attrs, kids |-> kids]

DIV == <<"d", "i", "v">>
ANCHOR == <<"a">>
PARA == <<"p">>
HEADING == <<"h", "1">>
IMG == <<"i", "m", "g">>
INPUT == <<"i", "n", "p", "u", "t">>
BUTTON == <<"b", "u", "t", "t", "o", "n">>
SCRIPT == <<"s", "c", "r", "i", "p", "t">>
OBJECT == <<"o", "b", "j", "e", "c", "t">>
EMBED == <<"e", "m", "b", "e", "d">>
IFRAME == <<"i", "f", "r", "a", "m", "e">>
CLASS == <<"c", "l", "a", "s", "s">>
ID == <<"i", "d">>
HREF == <<"h", "r", "e", "f">>
ONCLICK == <<"o", "n", "c", "l", "i", "c", "k">>
ONLOAD == <<"o", "n", "l", "o", "a", "d">>
ONERROR == <<"o", "n", "e", "r", "r", "o", "r">>

\* attr.name.startsWith('on')
StartsWithOn(name) == Len(name) >= 2 /\ name[1] = "o" /\ name[2] = "n"

\* div.querySelectorAll('script, object, embed, iframe'), each removed: no
\* such element is left at any depth
RECURSIVE RemoveScripts(_)
RemoveScripts(html) ==
    IF html = <<>> THEN <<>>
    ELSE IF Head(html).tag \in {SCRIPT, OBJECT, EMBED, IFRAME}
         THEN RemoveScripts(Tail(html))
         ELSE <<[Head(html) EXCEPT !.kids = RemoveScripts(@)]>> \o RemoveScripts(Tail(html))

\* for (const attr of el.attributes) { if on*: el.removeAttribute(attr.name) }
\* el.attributes is live and the iterator walks it by index: index is the
\* position the loop reads next, and a removal moves the attributes behind
\* it one position down
RECURSIVE RemoveOnAttributes(_, _)
RemoveOnAttributes(attributes, index) ==
    IF index > Len(attributes) THEN attributes
    ELSE IF StartsWithOn(attributes[index])
         THEN RemoveOnAttributes(SubSeq(attributes, 1, index - 1)
                                   \o SubSeq(attributes, index + 1, Len(attributes)),
                                 index + 1)
         ELSE RemoveOnAttributes(attributes, index + 1)

\* div.querySelectorAll('*').forEach(...)
RECURSIVE SweepElements(_)
SweepElements(html) ==
    IF html = <<>> THEN <<>>
    ELSE <<[Head(html) EXCEPT !.attrs = RemoveOnAttributes(@, 1),
                              !.kids = SweepElements(@)]>> \o SweepElements(Tail(html))

sanitizeHTML(html) == SweepElements(RemoveScripts(html))

(***************************************************************************)
(* Content (js/content.js).  A content value is                            *)
(*   [kind, mission, module, html]                                         *)
(* kind "fetched" is a response body, "placeholder" what                   *)
(* getPlaceholderContent(mission, module) builds (its subtitle reads       *)
(* "Module <mission>.<module>") and "default" the built-in home content.   *)
(***************************************************************************)
Fetched(body) == [kind |-> "fetched", mission |-> 0, module |-> 0, html |-> body]

getPlaceholderContent(mission, module) ==
    [kind |-> "placeholder", mission |-> mission, module |-> module,
     html |-> <<El(DIV, <<CLASS>>, <<El(DIV, <<CLASS>>, <<>>), El(HEADING, <<CLASS>>, <<>>),
                                    El(PARA, <<CLASS>>, <<>>)>>),
                El(DIV, <<CLASS>>, <<El(DIV, <<CLASS>>, <<>>)>>)>>]

\* generateJourneyMap: five tiles, each with an onclick attribute
generateJourneyMap ==
    [index \in 1..5 |-> El(DIV, <<CLASS, ONCLICK>>,
                           <<El(DIV, <<CLASS, ID>>, <<>>), El(DIV, <<CLASS>>, <<>>),
                             El(DIV, <<CLASS>>, <<>>)>>)]

getDefaultHomeContent ==
    [kind |-> "default", mission |-> 0, module |-> 0,
     html |-> <<El(DIV, <<CLASS>>, <<El(DIV, <<CLASS>>, <<>>)>>),
                El(DIV, <<CLASS>>, <<El(DIV, <<CLASS, ID>>, generateJourneyMap)>>)>>]

\* generateRecallChallenge(mission): missions 2..5 have questions
generateRecallChallenge(mission) ==
    IF mission \in 2..5
    THEN <<El(DIV, <<CLASS>>, <<El(BUTTON, <<CLASS>>, <<>>), El(DIV, <<CLASS>>, <<>>)>>)>>
    ELSE <<>>

\* the cache of a new ContentLoader
EmptyCache == [key \in {} |-> 0]

\* the outcome of fetch(...) and response.text(): "ok" with a body, a
\* response whose status is not a success ("status"), or a rejection
\* ("error")
FetchOk(body) == [kind |-> "ok", body |-> body]
FetchStatus == [kind |-> "status", body |-> <<>>]
FetchError == [kind |-> "error", body |-> <<>>]

\* loadModuleContent up to its first await: the cached content, or a fetch
loadModuleContent(c, mission, module) ==
    IF <<mission, module>> \in DOMAIN c
    THEN [hit |-> TRUE, content |-> c[<<mission, module>>]]
    ELSE [hit |-> FALSE, content |-> Fetched(<<>>)]

\* the placeholder is put in the cache as well
loadModuleContentSettled_cachePlaceholder(c, mission, module, outcome) ==
    LET content == IF outcome.kind = "ok" THEN Fetched(outcome.body)
                   ELSE getPlaceholderContent(mission, module)
    IN  [cache |-> [key \in DOMAIN c \cup {<<mission, module>>} |->
                       IF key = <<mission, module>> THEN content ELSE c[key]],
         content |-> content]

\* loadModuleContent from the settling of its fetch on: the cache and the
\* content it resolves with
loadModuleContentSettled(c, mission, module, outcome) ==
    IF outcome.kind = "ok"
    THEN [cache |-> [key \in DOMAIN c \cup {<<mission, module>>} |->
                        IF key = <<mission, module>> THEN Fetched(outcome.body)
                        ELSE c[key]],
          content |-> Fetched(outcome.body)]
    ELSE [cache |-> c, content |-> getPlaceholderContent(mission, module)]

\* the body of a response is returned whatever its status
loadHomeContentSettled_anyStatus(outcome) ==
    IF outcome.kind \in {"ok", "status"} THEN Fetched(outcome.body) ELSE getDefaultHomeContent

\* loadHomeContent from the settling of its fetch on
loadHomeContentSettled(outcome) ==
    IF outcome.kind = "ok" THEN Fetched(outcome.body) ELSE getDefaultHomeContent

(***************************************************************************)
(* Router (js/router.js).  A route is [kind, name, mission, module]: a     *)
(* named page or the page of a module.                                     *)
(***************************************************************************)
PageRoute(name) == [kind |-> "page", name |-> name, mission |-> 0, module |-> 0]

ModuleRoute(mission, module) ==
    [kind |-> "module", name |-> "", mission |-> mission, module |-> module]

\* the elements that a route name parses to when it is written into markup
RouteMarkup(name) ==
    IF name = "<img onerror>" THEN <<El(IMG, <<ONERROR>>, <<>>)>> ELSE <<>>

\* showPage, the page that is not 'home': the template with the route name
OtherPage(page) ==
    <<El(DIV, <<CLASS>>, <<El(DIV, <<CLASS>>, <<El(HEADING, <<CLASS>>, RouteMarkup(page))>>)>>)>>

\* showModule: the complete module page around the module content
CompletePage(mission, module, moduleContent) ==
    <<El(DIV, <<CLASS>>,
         generateRecallChallenge(mission)
         \o moduleContent.html
         \o <<El(DIV, <<CLASS>>, <<El(INPUT, <<ID>>, <<>>)>>),
              El(DIV, <<CLASS>>, <<El(BUTTON, <<CLASS, ID>>, <<>>),
                                    El(BUTTON, <<CLASS, ID>>, <<>>)>>)>>)>>

\* what the main content container holds: the markup and how it was written
Written(html, via) == [html |-> html, via |-> via]

\* showLoading(show): whether the loading indicator is visible afterwards
showLoading_stuck(show) == TRUE

showLoading(show) ==
    show

\* a console.error call
Logged(text, mission, module) == [text |-> text, mission |-> mission, module |-> module]

\* showError(message): the message goes to the console and nowhere else
showError(message) == <<message>>

\* the catch branches of showModule and showPage: what they log
showModuleCaught(mission, module) ==
    <<Logged("Error loading module:", 0, 0)>>
    \o showError(Logged("Failed to load module", mission, module))

showPageCaught ==
    <<Logged("Error loading page:", 0, 0)>>
    \o showError(Logged("Failed to load page content", 0, 0))

\* lucide.createIcons() returns or throws
IconsOutcomes == {"ok", "throws"}

\* toggleMission(mission) on the set of expanded missions: the elements of
\* the sidebar exist for missions 1..5 only
toggleMission_keepOthers(ex, mission) ==
    IF mission \notin 1..5 THEN ex
    ELSE IF mission \in ex THEN ex \ {mission}
    ELSE ex \cup {mission}

toggleMission(ex, mission) ==
    IF mission \notin 1..5 THEN ex
    ELSE IF mission \in ex THEN ex \ {mission}
    ELSE (ex \ {i \in 1..5 : i # mission}) \cup {mission}

\* ensureMissionExpanded(mission): toggles the mission only when its list
\* exists and is collapsed
ensureMissionExpanded_always(ex, mission) ==
    toggleMission(ex, mission)

ensureMissionExpanded(ex, mission) ==
    IF mission \in 1..5 /\ mission \notin ex THEN toggleMission(ex, mission) ELSE ex

\* the item under the key 'theme': null when there is none
StoredThemes == {"null", "dark", "light"}

\* toggleTheme on the displayed theme ("dark" is a body without the
\* data-theme attribute) and the stored item: the display is changed first,
\* then setItem stores the new value or throws
toggleTheme_noStore(displayed, stored, setItemOk) ==
    [theme |-> IF displayed = "light" THEN "dark" ELSE "light",
     stored |-> stored,
     raised |-> ~setItemOk]

toggleTheme(displayed, stored, setItemOk) ==
    LET flipped == IF displayed = "light" THEN "dark" ELSE "light"
    IN  [theme |-> flipped,
         stored |-> IF setItemOk THEN flipped ELSE stored,
         raised |-> ~setItemOk]

\* loadTheme on the displayed theme and the stored item
loadTheme(displayed, stored) == IF stored = "light" THEN "light" ELSE displayed

\* the indicators of a sidebar that populateNavigation has just built: no
\* mission is marked complete
NoIndicators == [percent |-> 0, complete |-> {}]

\* updateProgressUI on the indicators and the record: the percentage is
\* written, the marker of each complete mission is set to complete
updateProgressUI(ind, p) ==
    [percent |-> getOverallProgress(p),
     complete |-> ind.complete
                  \cup {m \in 1..5 : isMissionCompleteIn(p, NumberToString(m))}]

\* the Previous and Next buttons of the page in the main container: none on
\* a page that is not a module page
NoButtons == [present |-> FALSE, prev |-> FALSE, next |-> FALSE]

\* updateNavigationButtons(mission, module): the disabled properties of the
\* two buttons of a module page
updateNavigationButtons_firstOfMission(mission, module) ==
    [present |-> TRUE,
     prev |-> module = 1,
     next |-> mission = 5 /\ module = 3]

updateNavigationButtons(mission, module) ==
    [present |-> TRUE,
     prev |-> mission = 1 /\ module = 1,
     next |-> mission = 5 /\ module = 3]

\* navigateModule: the module it asks showModule for, if any
navigateModule_threeEach(currentMission, currentModule, direction) ==
    LET nextModule0 == currentModule + direction
        moduleCount == 3
        nextMission == IF nextModule0 > moduleCount THEN currentMission + 1
                       ELSE IF nextModule0 < 1 THEN currentMission - 1
                       ELSE currentMission
        nextModule == IF nextModule0 > moduleCount THEN 1
                      ELSE IF nextModule0 < 1 THEN 3
                      ELSE nextModule0
    IN  IF nextMission < 1 \/ nextMission > 5
        THEN [go |-> FALSE, mission |-> 0, module |-> 0]
        ELSE [go |-> TRUE, mission |-> nextMission, module |-> nextModule]

navigateModule(currentMission, currentModule, direction) ==
    LET nextModule0 == currentModule + direction
        moduleCount == IF currentMission = 4 THEN 4 ELSE 3
        nextMission == IF nextModule0 > moduleCount THEN currentMission + 1
                       ELSE IF nextModule0 < 1 THEN currentMission - 1
                       ELSE currentMission
        nextModule == IF nextModule0 > moduleCount THEN 1
                      ELSE IF nextModule0 < 1 THEN (IF nextMission = 4 THEN 4 ELSE 3)
                      ELSE nextModule0
    IN  IF nextMission < 1 \/ nextMission > 5
        THEN [go |-> FALSE, mission |-> 0, module |-> 0]
        ELSE [go |-> TRUE, mission |-> nextMission, module |-> nextModule]

(***************************************************************************)
(* Inputs.                                                                 *)
(***************************************************************************)
K(n) == NumberToString(n)

MissionArgs == {K(i) : i \in 0..6} \cup {<<"2", "x">>, <<"a", "b", "c">>}

ModuleArgs == {K(i) : i \in 0..5} \cup {<<"1", "x">>}

Subscribers == {"cb1", "cb2"}

\* timestamps of stored and imported documents: zero, the floor date, the
\* first instant after it, an instant that is always in the future, and a
\* value that is not a number
DocTimestamps == {Num(0), Num(FloorDate), Num(FloorDate + 1), Num(MaxNow + 1), NotNum}

\* one entry per document: the good entry (mission 1, module 1, a valid
\* timestamp) and documents that differ from it in the mission key, in the
\* module key or in the timestamp
DocEntries ==
    {<<K(1), K(1), t>> : t \in DocTimestamps}
    \cup {<<mk, K(1), Num(FloorDate + 1)>> : mk \in {K(4), K(6), <<"2", "x">>}}
    \cup {<<mk, nk, Num(FloorDate + 1)>> : mk \in {K(1), K(4)}, nk \in {K(4), <<"1", "x">>}}

OneEntry(mk, nk, t) == [a \in {mk} |-> Mods([b \in {nk} |-> t])]

\* the entry next to a good sibling entry (mission 1, module 2)
WithSibling(mk, nk, t) ==
    IF mk = K(1)
    THEN [a \in {mk} |-> Mods([b \in {nk, K(2)} |->
                                  IF b = nk THEN t ELSE Num(FloorDate + 1)])]
    ELSE [a \in {mk, K(1)} |->
             IF a = mk THEN Mods([b \in {nk} |-> t])
             ELSE Mods([b \in {K(2)} |-> Num(FloorDate + 1)])]

\* mission 1 with modules 1, 2 and 9
Mission1With9 ==
    [a \in {K(1)} |-> Mods([b \in {K(1), K(2), K(9)} |-> Num(FloorDate + 1)])]

ObjectDocs ==
    {ObjDoc(OneEntry(e[1], e[2], e[3])) : e \in DocEntries}
    \cup {ObjDoc(WithSibling(e[1], e[2], e[3])) : e \in DocEntries}
    \cup {ObjDoc(EmptyObj),
          ObjDoc([a \in {K(1)} |-> Mods(EmptyObj)]),
          ObjDoc([a \in {K(1)} |-> NotObj]),
          ObjDoc([a \in {<<"a", "b", "c">>} |-> Mods(EmptyObj)]),
          ObjDoc(Mission1With9)}

\* what importProgress may be handed
ImportPayloads == ObjectDocs \cup {Scalar}

\* what the storage key may hold when the page is opened
InitialStorage == ObjectDocs \cup {Absent, Garbage, Scalar}

\* what it may hold when the page is opened, where subscribers are watched
FullStorage == {Absent, Garbage, ObjDoc(Mission1With9)}

\* what importProgress is handed where subscribers are watched
EventsPayloads ==
    {Scalar, ObjDoc(OneEntry(K(4), K(4), Num(FloorDate + 1))),
     ObjDoc(OneEntry(K(1), K(1), Num(MaxNow + 1)))}

EntryCount(p) == Cardinality(UNION {{<<mk, nk>> : nk \in DOMAIN p[mk]} : mk \in DOMAIN p})

(***************************************************************************)
(* State machine.                                                          *)
(***************************************************************************)
\* lastOp: which operation ran last, what it returned, how many writes it
\* completed, which callbacks it ran, and obs, what a caller who looks at the
\* store right after the call sees (per operation, see the actions)
Op(name, st, obs) ==
    [op |-> name, ret |-> st.ret, saved |-> st.saved, notified |-> st.notified,
     raised |-> st.raised, obs |-> obs]

\* what a call leaves behind where nobody is subscribed
Quiet(st) == [progress |-> st.progress, storage |-> st.storage, ret |-> st.ret]

Commit(name, st, obs) ==
    /\ progress' = st.progress
    /\ storage' = st.storage
    /\ lastOp' = Op(name, st, obs)

\* (mission, module) is a slot of the curriculum: the decimal form of a mission
\* number in 1..5 and of a module number in 1..modulesPerMission[mission]
InCurriculum(mission, module) ==
    \E m \in 1..totalMissions :
        /\ mission = K(m)
        /\ \E n \in 1..modulesPerMission[m] : module = K(n)

\* the document is a progress record as the specification defines it: an
\* object whose keys are mission numbers, each holding an object whose keys
\* are module numbers of that mission, each holding a valid timestamp
WellFormed(doc, clock) ==
    /\ doc.kind = "object"
    /\ \A mk \in DOMAIN doc.obj :
        /\ doc.obj[mk].isObj
        /\ \E m \in 1..totalMissions : mk = K(m)
        /\ \A nk \in DOMAIN doc.obj[mk].mods :
            /\ InCurriculum(mk, nk)
            /\ isValidTimestamp(doc.obj[mk].mods[nk], clock)

\* the shell of a new Router and ContentLoader
ShellInit ==
    /\ cache = EmptyCache
    /\ fetches = <<>>
    /\ currentPage = PageRoute("home")
    /\ mainContent = Written(<<>>, "initial")
    /\ loading = FALSE
    /\ expanded = {}
    /\ theme = "dark"
    /\ storedTheme = "null"
    /\ indicators = NoIndicators

\* a call that awaits its fetch: showPage('home') or showModule(mission, module)
HomeFetch == [kind |-> "home", mission |-> 0, module |-> 0]
ModuleFetch(mission, module) == [kind |-> "module", mission |-> mission, module |-> module]

Init ==
    /\ ShellInit
    /\ progress = EmptyObj
    /\ quotaExceeded = FALSE
    /\ storage \in InitialStorage
    /\ listeners = <<>>
    /\ now = FloorDate + 1
    /\ getItemPatched \in BOOLEAN
    /\ lastOp = Op("new", Frame(EmptyObj, storage), <<>>)

\* page load: new AIPath() builds a fresh ProgressTracker, ContentLoader and
\* Router and runs AIPath.init: loadTheme, populateNavigation,
\* updateProgressUI and, last, showPage('home')
Boot ==
    /\ Commit("boot", Frame(EmptyObj, storage), <<>>)
    /\ listeners' = <<>>
    /\ cache' = EmptyCache
    /\ fetches' = <<HomeFetch>>
    /\ currentPage' = PageRoute("home")
    /\ mainContent' = Written(<<>>, "initial")
    /\ loading' = showLoading(TRUE)
    /\ expanded' = {}
    /\ theme' = loadTheme("dark", storedTheme)
    /\ indicators' = updateProgressUI(NoIndicators, EmptyObj)
    /\ UNCHANGED storedTheme
    /\ UNCHANGED <<now, getItemPatched, quotaExceeded>>

\* ProgressTracker.init(); obs is the record and the stored item as
\* loadProgress left them, before validateProgress ran
TrackerInit ==
    LET loaded == loadProgress(Frame(progress, storage), getItemPatched, now, ~quotaExceeded)
        st == validateProgress(loaded, listeners, now, ~quotaExceeded)
    IN  /\ Commit("init", st, <<loaded.progress, loaded.storage>>)
        /\ UNCHANGED <<listeners, now, getItemPatched, quotaExceeded>>
        /\ UNCHANGED shell

\* setModuleCompletion(mission, module, completed), then
\* isModuleComplete(mission, module); obs is <<the pair is a slot of the
\* curriculum, completed, what isModuleComplete returns, what the same call
\* leaves behind where nobody is subscribed>>
SetModuleCompletion(mission, module, completed) ==
    LET st == setModuleCompletion(Frame(progress, storage), listeners,
                                  mission, module, completed, now, ~quotaExceeded)
        quiet == setModuleCompletion(Frame(progress, storage), <<>>,
                                     mission, module, completed, now, ~quotaExceeded)
    IN  /\ EntryCount(st.progress) > EntryCount(progress)
            => EntryCount(progress) < MaxEntries
        /\ Commit("set", st, <<InCurriculum(mission, module), completed,
                              isModuleCompleteIn(st.progress, mission, module),
                              Quiet(quiet)>>)
        /\ UNCHANGED <<listeners, now, getItemPatched, quotaExceeded>>
        /\ UNCHANGED shell

\* resetProgress(confirm); obs is <<confirm, what the same call leaves behind
\* where nobody is subscribed>>
ResetProgress(confirm) ==
    LET st == resetProgress(Frame(progress, storage), listeners, confirm, ~quotaExceeded)
        quiet == resetProgress(Frame(progress, storage), <<>>, confirm, ~quotaExceeded)
    IN  /\ Commit("reset", st, <<confirm, Quiet(quiet)>>)
        /\ UNCHANGED <<listeners, now, getItemPatched, quotaExceeded>>
        /\ UNCHANGED shell

\* importProgress(progressData); obs is <<the argument is a well-formed
\* record, the argument if it was accepted, what the same call leaves behind
\* where nobody is subscribed>>
ImportProgress(progressData) ==
    LET st == importProgress(Frame(progress, storage), listeners,
                             progressData, now, ~quotaExceeded)
        quiet == importProgress(Frame(progress, storage), <<>>,
                                progressData, now, ~quotaExceeded)
    IN  /\ Commit("import", st, <<WellFormed(progressData, now),
                                 IF st.ret THEN progressData ELSE Scalar,
                                 Quiet(quiet)>>)
        /\ UNCHANGED <<listeners, now, getItemPatched, quotaExceeded>>
        /\ UNCHANGED shell

\* a second, new tracker on the same page is handed what this one exports:
\*   other = new ProgressTracker(); other.importProgress(tracker.exportProgress())
\* obs is the other tracker's record afterwards
ExportImportRoundTrip ==
    LET exported == exportProgress(progress, now)
        other == importProgress(Frame(EmptyObj, storage), <<>>,
                                ExportedAsData(exported), now, ~quotaExceeded)
    IN  /\ storage' = other.storage
        /\ lastOp' = Op("roundtrip", other, <<other.progress>>)
        /\ UNCHANGED <<progress, listeners, now, getItemPatched, quotaExceeded>>
        /\ UNCHANGED shell

\* what the store's queries tell about the record p where it concerns the
\* slot (mission, module): whether the slot is complete, how many entries
\* the record holds under the slot's keys, which slots of the curriculum are
\* complete, the completed-module count and the overall percentage
ViewOf(p, mission, module) ==
    [complete |-> isModuleCompleteIn(p, mission, module),
     entries |-> IF mission \in DOMAIN p /\ module \in DOMAIN p[mission] THEN 1 ELSE 0,
     slots |-> {sl \in (DOMAIN modulesPerMission) \X (1..4) :
                   /\ sl[2] <= modulesPerMission[sl[1]]
                   /\ isModuleCompleteIn(p, NumberToString(sl[1]), NumberToString(sl[2]))},
     completed |-> getCompletedModules(p),
     percentage |-> getOverallProgress(p)]

\* the number of leading modules of the mission that are complete
CompletedPrefix(p, m) ==
    Cardinality({n \in 1..modulesPerMission[m] :
                    \A j \in 1..n : isModuleCompleteIn(p, NumberToString(m), NumberToString(j))})

\* the module page's checkbox changes (router.js, setupModuleEventListeners):
\* setModuleCompletion(mission, module, e.target.checked) with the numbers
\* of the page
CheckboxChange(m, n, checked) ==
    LET st == setModuleCompletion(Frame(progress, storage), listeners,
                                  NumberToString(m), NumberToString(n), checked,
                                  now, ~quotaExceeded)
    IN  /\ Commit("checkbox", st, <<checked>>)
        /\ UNCHANGED <<listeners, now, getItemPatched, quotaExceeded>>
        /\ UNCHANGED shell

\* setModuleCompletion(mission, module, true) twice in a row, the clock
\* standing still or moving on between the calls; obs is <<the pair is a
\* slot of the curriculum, the view after the first call, the view after the
\* second>>
SetModuleCompletionTwice(mission, module) ==
    \E later \in {now, now + 1} :
        LET once == setModuleCompletion(Frame(progress, storage), listeners,
                                        mission, module, TRUE, now, ~quotaExceeded)
            twice == setModuleCompletion(Frame(once.progress, once.storage), listeners,
                                         mission, module, TRUE, later, ~quotaExceeded)
        IN  /\ later <= MaxNow
            /\ now' = later
            /\ Commit("settwice", twice,
                      <<InCurriculum(mission, module),
                        ViewOf(once.progress, mission, module),
                        ViewOf(twice.progress, mission, module)>>)
            /\ UNCHANGED <<listeners, getItemPatched, quotaExceeded>>
            /\ UNCHANGED shell

\* isMissionComplete(mission); obs is <<what it returns, the argument is a
\* mission of the curriculum, every module of that mission is complete>>
IsMissionComplete(mission) ==
    /\ lastOp' = Op("isMissionComplete", Frame(progress, storage),
                    <<isMissionCompleteIn(progress, mission),
                      \E m \in 1..totalMissions : mission = NumberToString(m),
                      \E m \in 1..totalMissions :
                          /\ mission = NumberToString(m)
                          /\ \A n \in 1..modulesPerMission[m] :
                                isModuleCompleteIn(progress, mission, NumberToString(n))>>)
    /\ UNCHANGED <<progress, storage, listeners, now, getItemPatched, quotaExceeded>>
    /\ UNCHANGED shell

\* getOverallProgress(); obs is <<what it returns>>
GetOverallProgress ==
    /\ lastOp' = Op("getOverallProgress", Frame(progress, storage),
                    <<getOverallProgress(progress)>>)
    /\ UNCHANGED <<progress, storage, listeners, now, getItemPatched, quotaExceeded>>
    /\ UNCHANGED shell

\* getNextRecommendedModule(); obs is <<what it returns>>
GetNextRecommendedModule ==
    /\ lastOp' = Op("getNextRecommendedModule", Frame(progress, storage),
                    <<getNextRecommendedModule(progress)>>)
    /\ UNCHANGED <<progress, storage, listeners, now, getItemPatched, quotaExceeded>>
    /\ UNCHANGED shell

On(callback) ==
    /\ Len(listeners) < MaxListeners
    /\ listeners' = on(listeners, callback)
    /\ lastOp' = Op("on", Frame(progress, storage), <<>>)
    /\ UNCHANGED <<progress, storage, now, getItemPatched, quotaExceeded>>
    /\ UNCHANGED shell

\* off: removes the first registration of the callback, if there is one;
\* obs is <<the callback>>
Off(callback) ==
    /\ listeners' = off(listeners, callback)
    /\ lastOp' = Op("off", Frame(progress, storage), <<callback>>)
    /\ UNCHANGED <<progress, storage, now, getItemPatched, quotaExceeded>>
    /\ UNCHANGED shell

\* time passes
Tick ==
    /\ now < MaxNow
    /\ now' = now + 1
    /\ lastOp' = Op("tick", Frame(progress, storage), <<>>)
    /\ UNCHANGED <<progress, storage, listeners, getItemPatched, quotaExceeded>>
    /\ UNCHANGED shell

(***************************************************************************)
(* Router and content loader steps.                                        *)
(***************************************************************************)
store == <<progress, storage, listeners, now, getItemPatched, quotaExceeded>>

\* the modules in the order of the curriculum
Curriculum ==
    <<<<1, 1>>, <<1, 2>>, <<1, 3>>, <<2, 1>>, <<2, 2>>, <<2, 3>>, <<3, 1>>, <<3, 2>>,
      <<3, 3>>, <<4, 1>>, <<4, 2>>, <<4, 3>>, <<4, 4>>, <<5, 1>>, <<5, 2>>, <<5, 3>>>>

PositionOf(mission, module) ==
    CHOOSE i \in 1..Len(Curriculum) : Curriculum[i] = <<mission, module>>

\* showModule from the content on: the page is built, sanitized and written,
\* the mission is expanded in the sidebar, the icons are rendered, the route
\* is set and the loading indicator hidden; when the icons throw, the route
\* stays as it was
RenderModule(mission, module, moduleContent, icons) ==
    /\ mainContent' = Written(sanitizeHTML(CompletePage(mission, module, moduleContent)),
                              "sanitizeHTML")
    /\ expanded' = ensureMissionExpanded(expanded, mission)
    /\ currentPage' = IF icons = "throws" THEN currentPage ELSE ModuleRoute(mission, module)
    /\ loading' = showLoading(FALSE)

\* showModule(mission, module) up to where it stops: at the fetch when the
\* content is not cached, at its end when it is
ShowModuleSteps(mission, module, icons) ==
    LET loaded == loadModuleContent(cache, mission, module)
    IN  IF loaded.hit
        THEN /\ RenderModule(mission, module, loaded.content, icons)
             /\ UNCHANGED <<cache, fetches>>
        ELSE /\ fetches' = Append(fetches, ModuleFetch(mission, module))
             /\ loading' = showLoading(TRUE)
             /\ UNCHANGED <<cache, currentPage, mainContent, expanded>>

\* showModule(mission, module); obs is <<the content came from the cache,
\* the content it rendered, what it logged, the route it was called for, the
\* buttons of the page it rendered>>
ShowModule(mission, module, icons) ==
    LET loaded == loadModuleContent(cache, mission, module)
    IN  /\ ShowModuleSteps(mission, module, icons)
        /\ lastOp' = Op("showModule", Frame(progress, storage),
                        <<loaded.hit, loaded.content,
                          IF loaded.hit /\ icons = "throws"
                          THEN showModuleCaught(mission, module) ELSE <<>>,
                          ModuleRoute(mission, module),
                          IF loaded.hit THEN updateNavigationButtons(mission, module)
                          ELSE NoButtons>>)
        /\ UNCHANGED store
        /\ UNCHANGED decor

\* showPage(page): 'home' awaits loadHomeContent, every other page is written
\* at once from the template
ShowPage(page) ==
    /\ IF page = "home"
       THEN /\ fetches' = Append(fetches, HomeFetch)
            /\ loading' = showLoading(TRUE)
            /\ UNCHANGED <<cache, currentPage, mainContent>>
       ELSE /\ mainContent' = Written(OtherPage(page), "innerHTML")
            /\ currentPage' = PageRoute(page)
            /\ loading' = showLoading(FALSE)
            /\ UNCHANGED <<cache, fetches>>
    /\ lastOp' = Op("showPage", Frame(progress, storage), <<page = "home">>)
    /\ UNCHANGED store
    /\ UNCHANGED <<expanded, decor>>

\* the fetch at position index settles and the call that awaited it runs to
\* its end; obs is <<the call, the kind of outcome, the content the loader
\* resolved with, what the call logged, the buttons of the page it rendered,
\* a call that was made earlier is still waiting for its fetch>>
FetchSettles(index, outcome, icons) ==
    LET call == fetches[index]
        settled == loadModuleContentSettled(cache, call.mission, call.module, outcome)
        content == IF call.kind = "home" THEN loadHomeContentSettled(outcome)
                   ELSE settled.content
        logged == IF icons # "throws" THEN <<>>
                  ELSE IF call.kind = "home" THEN showPageCaught
                  ELSE showModuleCaught(call.mission, call.module)
    IN  /\ fetches' = SubSeq(fetches, 1, index - 1) \o SubSeq(fetches, index + 1, Len(fetches))
        /\ IF call.kind = "home"
           THEN /\ mainContent' = Written(sanitizeHTML(content.html), "sanitizeHTML")
                /\ currentPage' = IF icons = "throws" THEN currentPage ELSE PageRoute("home")
                /\ loading' = showLoading(FALSE)
                /\ UNCHANGED <<cache, expanded>>
           ELSE /\ cache' = settled.cache
                /\ RenderModule(call.mission, call.module, content, icons)
        /\ lastOp' = Op("settle", Frame(progress, storage),
                        <<call, outcome.kind, content, logged,
                          IF call.kind = "home" THEN NoButtons
                          ELSE updateNavigationButtons(call.mission, call.module),
                          index > 1>>)
        /\ UNCHANGED store
        /\ UNCHANGED decor

\* navigateModule(currentMission, currentModule, direction); obs is <<the
\* module has a neighbour in that direction in the curriculum, showModule
\* was called, it was called for that neighbour>>
NavigateModule(currentMission, currentModule, direction, icons) ==
    LET target == navigateModule(currentMission, currentModule, direction)
        position == PositionOf(currentMission, currentModule) + direction
    IN  /\ IF target.go
           THEN ShowModuleSteps(target.mission, target.module, icons)
           ELSE UNCHANGED <<cache, fetches, currentPage, mainContent, loading, expanded>>
        /\ lastOp' = Op("navigateModule", Frame(progress, storage),
                        <<position \in 1..Len(Curriculum),
                          target.go,
                          /\ position \in 1..Len(Curriculum)
                          /\ <<target.mission, target.module>> = Curriculum[position]>>)
        /\ UNCHANGED store
        /\ UNCHANGED decor

\* toggleMission(mission); obs is <<mission, the mission was expanded>>
ToggleMission(mission) ==
    /\ expanded' = toggleMission(expanded, mission)
    /\ lastOp' = Op("toggleMission", Frame(progress, storage),
                    <<mission, mission \in expanded>>)
    /\ UNCHANGED store
    /\ UNCHANGED <<cache, fetches, currentPage, mainContent, loading, decor>>

\* ensureMissionExpanded(mission); obs is <<mission, the mission was expanded>>
EnsureMissionExpanded(mission) ==
    /\ expanded' = ensureMissionExpanded(expanded, mission)
    /\ lastOp' = Op("ensureMissionExpanded", Frame(progress, storage),
                    <<mission, mission \in expanded>>)
    /\ UNCHANGED store
    /\ UNCHANGED <<cache, fetches, currentPage, mainContent, loading, decor>>

\* toggleTheme(); obs is <<the theme displayed before>>
ToggleTheme ==
    LET toggled == toggleTheme(theme, storedTheme, ~quotaExceeded)
    IN  /\ theme' = toggled.theme
        /\ storedTheme' = toggled.stored
        /\ lastOp' = Op("toggleTheme",
                        [Frame(progress, storage) EXCEPT !.raised = toggled.raised],
                        <<theme>>)
        /\ UNCHANGED store
        /\ UNCHANGED <<cache, fetches, currentPage, mainContent, loading, expanded, indicators>>

(***************************************************************************)
(* Spec: the store with a storage that takes every write and with nobody   *)
(* subscribed.                                                             *)
(***************************************************************************)
Next ==
    \/ Boot
    \/ TrackerInit
    \/ \E mission \in MissionArgs, module \in ModuleArgs, completed \in BOOLEAN :
          SetModuleCompletion(mission, module, completed)
    \/ \E confirm \in BOOLEAN : ResetProgress(confirm)
    \/ \E progressData \in ImportPayloads : ImportProgress(progressData)
    \/ ExportImportRoundTrip
    \/ Tick

Spec == Init /\ [][Next]_vars

(***************************************************************************)
(* SpecSlots: every slot of the curriculum is set and cleared; nothing is   *)
(* loaded.                                                                 *)
(***************************************************************************)
SlotsInit ==
    /\ ShellInit
    /\ progress = EmptyObj
    /\ quotaExceeded = FALSE
    /\ storage = Absent
    /\ listeners = <<>>
    /\ now = FloorDate + 1
    /\ getItemPatched = FALSE
    /\ lastOp = Op("new", Frame(EmptyObj, storage), <<>>)

SlotsNext ==
    \/ \E mission \in MissionArgs, module \in ModuleArgs, completed \in BOOLEAN :
          SetModuleCompletion(mission, module, completed)
    \/ \E confirm \in BOOLEAN : ResetProgress(confirm)
    \/ \E progressData \in EventsPayloads : ImportProgress(progressData)
    \/ Tick

SpecSlots == SlotsInit /\ [][SlotsNext]_vars

(***************************************************************************)
(* SpecEvents: subscribers come and go and the storage quota may be used   *)
(* up for the whole session; fewer slots and documents.                    *)
(***************************************************************************)
EventsInit ==
    /\ ShellInit
    /\ progress = EmptyObj
    /\ quotaExceeded \in BOOLEAN
    /\ storage \in FullStorage
    /\ listeners = <<>>
    /\ now = FloorDate + 1
    /\ getItemPatched \in BOOLEAN
    /\ lastOp = Op("new", Frame(EmptyObj, storage), <<>>)

EventsNext ==
    \/ TrackerInit
    \/ \E mission \in {K(1), K(4), K(6)}, module \in {K(1), K(4)}, completed \in BOOLEAN :
          SetModuleCompletion(mission, module, completed)
    \/ \E confirm \in BOOLEAN : ResetProgress(confirm)
    \/ \E progressData \in EventsPayloads : ImportProgress(progressData)
    \/ \E callback \in Subscribers : On(callback)
    \/ \E callback \in Subscribers : Off(callback)
    \/ Tick

SpecEvents == EventsInit /\ [][EventsNext]_vars

(***************************************************************************)
(* SpecContent: after the page load, links to two modules and to the named *)
(* pages are followed while fetches are in flight; a fetch gives one of    *)
(* three bodies, a failure status or a network error.                      *)
(***************************************************************************)
\* response bodies: a paragraph; a block with a script element in it; a link
\* with two event-handler attributes next to each other
BodyPlain == <<El(PARA, <<>>, <<>>)>>
BodyScript == <<El(DIV, <<CLASS>>, <<El(SCRIPT, <<>>, <<>>), El(PARA, <<>>, <<>>)>>)>>
BodyHandlers == <<El(ANCHOR, <<ONCLICK, ONLOAD, HREF>>, <<>>)>>

ContentBodies == {BodyPlain, BodyScript, BodyHandlers}

FetchOutcomes == {FetchOk(body) : body \in ContentBodies} \cup {FetchStatus, FetchError}

ModuleLinks == {<<1, 1>>, <<4, 4>>}

PageLinks == {"home", "resources", "<img onerror>"}

ContentInit ==
    /\ progress = EmptyObj
    /\ quotaExceeded = FALSE
    /\ storage = Absent
    /\ listeners = <<>>
    /\ now = FloorDate + 1
    /\ getItemPatched = FALSE
    /\ lastOp = Op("boot", Frame(EmptyObj, storage), <<>>)
    /\ cache = EmptyCache
    /\ fetches = <<HomeFetch>>
    /\ currentPage = PageRoute("home")
    /\ mainContent = Written(<<>>, "initial")
    /\ loading = TRUE
    /\ expanded = {}
    /\ theme = "dark"
    /\ storedTheme = "null"
    /\ indicators = updateProgressUI(NoIndicators, EmptyObj)

ContentNext ==
    \/ \E link \in ModuleLinks :
          /\ Len(fetches) < MaxFetches
          /\ \E icons \in IconsOutcomes : ShowModule(link[1], link[2], icons)
    \/ \E page \in PageLinks :
          /\ Len(fetches) < MaxFetches
          /\ ShowPage(page)
    \/ \E index \in 1..Len(fetches), outcome \in FetchOutcomes, icons \in IconsOutcomes :
          FetchSettles(index, outcome, icons)

SpecContent == ContentInit /\ [][ContentNext]_vars

(***************************************************************************)
(* SpecSidebar: after the page load, module links are followed and the     *)
(* missions of the sidebar are toggled, missions the sidebar does not have *)
(* included.                                                               *)
(***************************************************************************)
\* a fetch gives the plain body or fails
PlainOutcomes == {FetchOk(BodyPlain), FetchError}

MissionToggles == 0..6

SidebarNext ==
    \/ \E link \in ModuleLinks, icons \in IconsOutcomes :
          /\ Len(fetches) < MaxFetches
          /\ ShowModule(link[1], link[2], icons)
    \/ \E index \in 1..Len(fetches), outcome \in PlainOutcomes, icons \in IconsOutcomes :
          FetchSettles(index, outcome, icons)
    \/ \E mission \in MissionToggles : ToggleMission(mission)
    \/ \E mission \in MissionToggles : EnsureMissionExpanded(mission)

SpecSidebar == ContentInit /\ [][SidebarNext]_vars

(***************************************************************************)
(* SpecLoading: after the page load, two module links and the links to the *)
(* home and resources pages are followed while fetches are in flight;      *)
(* every fetch settles in the end.                                         *)
(***************************************************************************)
LoadingNext ==
    \/ \E link \in ModuleLinks, icons \in IconsOutcomes :
          /\ Len(fetches) < MaxFetches
          /\ ShowModule(link[1], link[2], icons)
    \/ \E page \in {"home", "resources"} :
          /\ Len(fetches) < MaxFetches
          /\ ShowPage(page)
    \/ \E index \in 1..Len(fetches), outcome \in PlainOutcomes, icons \in IconsOutcomes :
          FetchSettles(index, outcome, icons)

\* some fetch in flight settles
SomeFetchSettles ==
    \E index \in 1..Len(fetches), outcome \in PlainOutcomes, icons \in IconsOutcomes :
        FetchSettles(index, outcome, icons)

SpecLoading == ContentInit /\ [][LoadingNext]_vars /\ WF_vars(SomeFetchSettles)

(***************************************************************************)
(* SpecPage: after the page load, with a storage that takes every write or *)
(* none, module links and the resources link are followed, the checkbox of *)
(* the module on the page is ticked and unticked, and the record is reset  *)
(* and imported.                                                           *)
(***************************************************************************)
PageInit ==
    /\ progress = EmptyObj
    /\ quotaExceeded \in BOOLEAN
    /\ storage = Absent
    /\ listeners = <<>>
    /\ now = FloorDate + 1
    /\ getItemPatched = FALSE
    /\ lastOp = Op("boot", Frame(EmptyObj, storage), <<>>)
    /\ cache = EmptyCache
    /\ fetches = <<HomeFetch>>
    /\ currentPage = PageRoute("home")
    /\ mainContent = Written(<<>>, "initial")
    /\ loading = TRUE
    /\ expanded = {}
    /\ theme = "dark"
    /\ storedTheme = "null"
    /\ indicators = updateProgressUI(NoIndicators, EmptyObj)

PageNext ==
    \/ \E link \in ModuleLinks, icons \in IconsOutcomes :
          /\ Len(fetches) < MaxFetches
          /\ ShowModule(link[1], link[2], icons)
    \/ \E page \in {"resources"} :
          /\ Len(fetches) < MaxFetches
          /\ ShowPage(page)
    \/ \E index \in 1..Len(fetches), outcome \in PlainOutcomes, icons \in IconsOutcomes :
          FetchSettles(index, outcome, icons)
    \/ \E checked \in BOOLEAN :
          /\ currentPage.kind = "module"
          /\ CheckboxChange(currentPage.mission, currentPage.module, checked)
    \/ \E confirm \in BOOLEAN : ResetProgress(confirm)
    \/ \E progressData \in EventsPayloads : ImportProgress(progressData)

SpecPage == PageInit /\ [][PageNext]_vars

(***************************************************************************)
(* SpecTheme: the key 'theme' holds nothing, 'dark' or 'light' when the    *)
(* page is opened, the storage takes every write or none; the page is      *)
(* loaded and reloaded, the theme is toggled and modules are ticked and    *)
(* unticked in between.                                                    *)
(***************************************************************************)
ThemeInit ==
    /\ progress = EmptyObj
    /\ quotaExceeded \in BOOLEAN
    /\ storage = Absent
    /\ listeners = <<>>
    /\ now = FloorDate + 1
    /\ getItemPatched = FALSE
    /\ lastOp = Op("new", Frame(EmptyObj, storage), <<>>)
    /\ cache = EmptyCache
    /\ fetches = <<>>
    /\ currentPage = PageRoute("home")
    /\ mainContent = Written(<<>>, "initial")
    /\ loading = FALSE
    /\ expanded = {}
    /\ theme = "dark"
    /\ storedTheme \in StoredThemes
    /\ indicators = NoIndicators

ThemeNext ==
    \/ Boot
    \/ ToggleTheme
    \/ \E m \in {1, 4}, n \in {1, 4}, checked \in BOOLEAN : CheckboxChange(m, n, checked)

SpecTheme == ThemeInit /\ [][ThemeNext]_vars

(***************************************************************************)
(* SpecRecommend: getNextRecommendedModule on a store whose record holds   *)
(* any set of the 16 modules of the curriculum.                            *)
(***************************************************************************)
\* the record in which exactly the modules of S are complete
RecordOf(S) ==
    [mk \in {NumberToString(sl[1]) : sl \in S} |->
        [nk \in {NumberToString(sl[2]) : sl \in {t \in S : NumberToString(t[1]) = mk}} |->
            FloorDate + 1]]

RecommendInit ==
    /\ ShellInit
    /\ progress \in {RecordOf(S) : S \in SUBSET {Curriculum[i] : i \in 1..Len(Curriculum)}}
    /\ quotaExceeded = FALSE
    /\ storage = Stringify(progress)
    /\ listeners = <<>>
    /\ now = FloorDate + 1
    /\ getItemPatched = FALSE
    /\ lastOp = Op("new", Frame(progress, storage), <<>>)

RecommendNext == GetNextRecommendedModule

SpecRecommend == RecommendInit /\ [][RecommendNext]_vars

(***************************************************************************)
(* SpecNav: from the page of module 1.1 the Previous and Next buttons of   *)
(* the module pages are followed through the curriculum; the module        *)
(* resources are missing, so every page shows the placeholder.             *)
(***************************************************************************)
NavInit ==
    /\ progress = EmptyObj
    /\ quotaExceeded = FALSE
    /\ storage = Absent
    /\ listeners = <<>>
    /\ now = FloorDate + 1
    /\ getItemPatched = FALSE
    /\ lastOp = Op("boot", Frame(EmptyObj, storage), <<>>)
    /\ cache = EmptyCache
    /\ fetches = <<>>
    /\ currentPage = ModuleRoute(1, 1)
    /\ mainContent = Written(sanitizeHTML(CompletePage(1, 1, getPlaceholderContent(1, 1))),
                             "sanitizeHTML")
    /\ loading = FALSE
    /\ expanded = {1}
    /\ theme = "dark"
    /\ storedTheme = "null"
    /\ indicators = updateProgressUI(NoIndicators, EmptyObj)

NavNext ==
    \/ \E slot \in {Curriculum[i] : i \in 1..Len(Curriculum)}, direction \in {-1, 1} :
          /\ Len(fetches) < MaxNavigations
          /\ \E icons \in IconsOutcomes : NavigateModule(slot[1], slot[2], direction, icons)
    \/ \E index \in 1..Len(fetches), outcome \in {FetchStatus, FetchError},
          icons \in IconsOutcomes :
          FetchSettles(index, outcome, icons)

SpecNav == NavInit /\ [][NavNext]_vars

(***************************************************************************)
(* SpecThrow: as SpecEvents, with a subscriber that throws.                *)
(***************************************************************************)
ThrowingSubscribers == {"cb1", "cbThrows"}

ThrowNext ==
    \/ TrackerInit
    \/ \E mission \in {K(1), K(4), K(6)}, module \in {K(1), K(4)}, completed \in BOOLEAN :
          SetModuleCompletion(mission, module, completed)
    \/ \E confirm \in BOOLEAN : ResetProgress(confirm)
    \/ \E progressData \in EventsPayloads : ImportProgress(progressData)
    \/ \E callback \in ThrowingSubscribers : On(callback)
    \/ \E callback \in ThrowingSubscribers : Off(callback)
    \/ Tick

SpecThrow == EventsInit /\ [][ThrowNext]_vars

(***************************************************************************)
(* SpecViews: the modules of each mission are ticked and unticked in their *)
(* order on the module pages, up to the whole curriculum, and the store is *)
(* queried in between.                                                     *)
(***************************************************************************)
ViewsNext ==
    \/ \E m \in 1..totalMissions :
          \/ /\ CompletedPrefix(progress, m) < modulesPerMission[m]
             /\ CheckboxChange(m, CompletedPrefix(progress, m) + 1, TRUE)
          \/ /\ CompletedPrefix(progress, m) > 0
             /\ CheckboxChange(m, CompletedPrefix(progress, m), FALSE)
    \/ \E mission \in MissionArgs : IsMissionComplete(mission)
    \/ GetOverallProgress
    \/ \E confirm \in BOOLEAN : ResetProgress(confirm)

SpecViews == SlotsInit /\ [][ViewsNext]_vars

(***************************************************************************)
(* SpecTwice: three slots and a pair that is no slot are ticked, unticked  *)
(* and marked complete twice in a row while the clock runs.                *)
(***************************************************************************)
TwiceNext ==
    \/ \E m \in {1, 4}, n \in {1, 4}, checked \in BOOLEAN : CheckboxChange(m, n, checked)
    \/ \E mission \in {K(1), K(4)}, module \in {K(1), K(4)} :
          SetModuleCompletionTwice(mission, module)
    \/ Tick

SpecTwice == SlotsInit /\ [][TwiceNext]_vars

(***************************************************************************)
(* Properties.                                                             *)
(***************************************************************************)
Slots == {<<K(m), K(n)>> : m \in 1..totalMissions, n \in 1..4} \cap
         {sl \in MissionArgs \X ModuleArgs : InCurriculum(sl[1], sl[2])}

Mutators == {"set", "reset", "import"}

\* the stored document holds a valid entry for the slot
PersistedEntry(s, mk, nk, clock) ==
    /\ s.kind = "object"
    /\ mk \in DOMAIN s.obj
    /\ s.obj[mk].isObj
    /\ nk \in DOMAIN s.obj[mk].mods
    /\ isValidTimestamp(s.obj[mk].mods[nk], clock)

\* C1: for every slot (m, n) of the curriculum, setModuleCompletion(m, n, true)
\* returns true and isModuleComplete(m, n) is true right after it;
\* setModuleCompletion(m, n, false) returns true and isModuleComplete(m, n) is
\* false right after it.
C1_SetThenIsComplete ==
    (lastOp.op = "set" /\ lastOp.obs[1]) =>
        (lastOp.ret /\ lastOp.obs[3] = lastOp.obs[2])

\* C1 witness: module 4 of mission 4 has just been marked complete
C1_Witness ==
    /\ lastOp.op = "set" /\ lastOp.obs[1] /\ lastOp.obs[2] /\ lastOp.ret
    /\ K(4) \in DOMAIN progress
    /\ K(4) \in DOMAIN progress[K(4)]

\* C2: for every (mission, module) pair that is not a slot of the curriculum,
\* setModuleCompletion returns false, writes nothing, notifies nobody and
\* leaves the record and the stored item as they were, and isModuleComplete
\* returns false for the pair.
C2_OutsideRejected ==
    [][(lastOp'.op = "set" /\ ~lastOp'.obs[1]) =>
          /\ ~lastOp'.ret
          /\ ~lastOp'.obs[3]
          /\ lastOp'.saved = 0
          /\ lastOp'.notified = <<>>
          /\ progress' = progress
          /\ storage' = storage]_vars

\* C3: when the page has been opened, every slot with a valid entry in the
\* stored record is reported complete, and the first change of a slot made
\* afterwards keeps the stored valid entries of the other slots.
C3_LoadedAtStartup ==
    [][/\ lastOp'.op = "boot" =>
            \A sl \in Slots :
                PersistedEntry(storage', sl[1], sl[2], now')
                    => isModuleCompleteIn(progress', sl[1], sl[2])
       /\ (lastOp.op = "boot" /\ lastOp'.op = "set" /\ lastOp'.obs[1]) =>
            \A sl \in Slots :
                (PersistedEntry(storage, sl[1], sl[2], now)
                    /\ isModuleCompleteIn(progress, sl[1], sl[2]) = isModuleCompleteIn(progress', sl[1], sl[2]))
                    => PersistedEntry(storage', sl[1], sl[2], now)]_vars

\* the stored document is a record whose one defect is module keys that are
\* out of range for their mission
OnlyModulesOutOfRange(s, clock) ==
    /\ s.kind = "object"
    /\ \A mk \in DOMAIN s.obj :
        /\ \E m \in 1..totalMissions : mk = K(m)
        /\ s.obj[mk].isObj
        /\ \A nk \in DOMAIN s.obj[mk].mods :
            /\ isValidTimestamp(s.obj[mk].mods[nk], clock)
            /\ \E n \in 0..MaxIndexKey : nk = K(n)
    /\ \E mk \in DOMAIN s.obj : \E nk \in DOMAIN s.obj[mk].mods : ~InCurriculum(mk, nk)

\* C4: init() on a stored record that holds out-of-range module entries next
\* to valid entries removes exactly the out-of-range entries: every valid
\* entry is still complete, with the timestamp it was stored with.
C4_DropsOnlyOutOfRange ==
    [][(lastOp'.op = "init" /\ OnlyModulesOutOfRange(storage, now)) =>
          /\ \A mk \in DOMAIN progress' : \A nk \in DOMAIN progress'[mk] :
                InCurriculum(mk, nk)
          /\ \A sl \in Slots :
                PersistedEntry(storage, sl[1], sl[2], now) =>
                    /\ isModuleCompleteIn(progress', sl[1], sl[2])
                    /\ progress'[sl[1]][sl[2]] = storage.obj[sl[1]].mods[sl[2]].v]_vars

\* C5: whenever the stored item does not parse or is not a valid record,
\* loadProgress leaves the record empty and the stored item equal to the
\* serialized empty record.
C5_LoadResetsAndPersists ==
    [][(/\ lastOp'.op = "init"
        /\ \/ storage.kind = "garbage"
           \/ storage.kind \in {"scalar", "object"} /\ ~isValidProgressData(storage, now)) =>
          /\ lastOp'.obs[1] = EmptyObj
          /\ lastOp'.obs[2] = Stringify(EmptyObj)]_vars

\* C6: importProgress on a new store, handed what exportProgress returns,
\* returns true and leaves that store with the exporting store's record.
C6_ExportImportRoundTrip ==
    lastOp.op = "roundtrip" => (lastOp.ret /\ lastOp.obs[1] = progress)

\* C7: importProgress returns false and changes nothing (record, stored item,
\* notifications) unless its argument is a well-formed record, and then it
\* returns true and the record is the argument.
C7_ImportAllOrNothing ==
    [][lastOp'.op = "import" =>
          IF lastOp'.obs[1]
          THEN /\ lastOp'.ret
               /\ Stringify(progress') = lastOp'.obs[2]
          ELSE /\ ~lastOp'.ret
               /\ lastOp'.saved = 0
               /\ lastOp'.notified = <<>>
               /\ progress' = progress
               /\ storage' = storage]_vars

\* C8: no mission key of the record holds zero module entries.
C8_NoEmptyMission ==
    \A mk \in DOMAIN progress : DOMAIN progress[mk] # {}

\* C9: every (mission, module) key pair of the record is a slot of the
\* curriculum and every stored timestamp is valid at the current time.
C9_RecordWithinBounds ==
    \A mk \in DOMAIN progress : \A nk \in DOMAIN progress[mk] :
        /\ InCurriculum(mk, nk)
        /\ isValidTimestamp(Num(progress[mk][nk]), now)

\* every registered callback was run once, in registration order
NotifiedEachOnce ==
    /\ Len(lastOp.notified) = Len(listeners)
    /\ \A i \in 1..Len(listeners) : lastOp.notified[i].cb = listeners[i]

QuietOutcome == lastOp.obs[Len(lastOp.obs)]

\* C11: when a subscriber throws during the notification of a mutation, every
\* registered subscriber is still run once, the mutating call returns to its
\* caller without an exception, and the record, the stored item and the
\* return value are those of the same call made with no subscriber.
C11_ThrowingSubscriberIsolated ==
    (lastOp.op \in Mutators /\ \E i \in 1..Len(lastOp.notified) : lastOp.notified[i].threw) =>
        /\ NotifiedEachOnce
        /\ ~lastOp.raised
        /\ progress = QuietOutcome.progress
        /\ storage = QuietOutcome.storage
        /\ lastOp.ret = QuietOutcome.ret

\* C11 witness: a mutation has notified the throwing subscriber first and the
\* other subscriber after it
C11_Witness ==
    /\ lastOp.op = "set" /\ lastOp.ret
    /\ listeners = <<"cbThrows", "cb1">>
    /\ Len(lastOp.notified) = 2
    /\ lastOp.notified[1].threw
    /\ lastOp.notified[2].cb = "cb1"
    /\ progress # EmptyObj

\* C12: for every slot of the curriculum, setModuleCompletion(m, n, true)
\* twice in a row leaves what the first call left: the slot is complete, the
\* record holds one entry for it, and the set of complete slots, the
\* completed-module count and the overall percentage are those seen after
\* the first call.
C12_CompletionIdempotent ==
    (lastOp.op = "settwice" /\ lastOp.obs[1]) =>
        /\ lastOp.ret
        /\ lastOp.obs[3].complete
        /\ lastOp.obs[3].entries = 1
        /\ lastOp.obs[3] = lastOp.obs[2]
        /\ lastOp.obs[3].completed = getCompletedModules(progress)
        /\ lastOp.obs[3].percentage = getOverallProgress(progress)

\* C12 witness: a slot was marked complete twice, the clock moving on in
\* between, while the two other slots were complete
C12_Witness ==
    /\ lastOp.op = "settwice" /\ lastOp.obs[1]
    /\ lastOp.obs[3].completed = 3
    /\ \E mk \in DOMAIN progress : \E nk \in DOMAIN progress[mk] : progress[mk][nk] = now
    /\ \E mk \in DOMAIN progress : \E nk \in DOMAIN progress[mk] : progress[mk][nk] < now

\* C13: isMissionComplete(m) is true exactly when m is a mission of the
\* curriculum and every module of m is complete; for an argument that is no
\* mission of the curriculum it is false.
C13_MissionCompleteIffAllModules ==
    lastOp.op = "isMissionComplete" =>
        /\ lastOp.obs[1] = lastOp.obs[3]
        /\ ~lastOp.obs[2] => ~lastOp.obs[1]

\* C14: getOverallProgress() is round(100 * k / 16) with k the number of
\* slots of the curriculum that isModuleComplete reports complete: an integer
\* in 0..100 that is 0 for k = 0, 50 for k = 8 and 100 for k = 16.
C14_OverallProgressRounded ==
    LET k == Cardinality({sl \in Slots : isModuleCompleteIn(progress, sl[1], sl[2])})
        r == getOverallProgress(progress)
    IN  /\ r \in 0..100
        /\ 16 * r <= 100 * k + 8
        /\ 100 * k + 8 < 16 * r + 16
        /\ k = 0 => r = 0
        /\ k = 8 => r = 50
        /\ k = 16 => r = 100
        /\ lastOp.op = "getOverallProgress" => lastOp.obs[1] = r

\* C14 witness: getOverallProgress has returned 13 on a record of two
\* complete modules (12.5 rounds up)
C14_Witness ==
    /\ lastOp.op = "getOverallProgress"
    /\ lastOp.obs[1] = 13
    /\ EntryCount(progress) = 2

\* what resetProgress leaves when the confirmation flag is not set: false
\* returned, nothing written, nobody notified, record and stored item as
\* they were
ResetRefused ==
    /\ ~lastOp'.ret
    /\ lastOp'.saved = 0
    /\ lastOp'.notified = <<>>
    /\ progress' = progress
    /\ storage' = storage

\* what a confirmed resetProgress leaves in memory: true returned, the record
\* empty, no slot complete, overall progress 0
ResetCleared ==
    /\ lastOp'.ret
    /\ progress' = EmptyObj
    /\ \A sl \in Slots : ~isModuleCompleteIn(progress', sl[1], sl[2])
    /\ getOverallProgress(progress') = 0

\* C15 as stated: resetProgress without the confirmation flag returns false
\* and changes nothing; with the flag it returns true, the record is empty,
\* no slot is complete, overall progress is 0 and the stored item is the
\* serialized empty record.
C15_ResetNeedsConfirmation ==
    [][lastOp'.op = "reset" =>
          IF lastOp'.obs[1]
          THEN ResetCleared /\ storage' = Stringify(EmptyObj)
          ELSE ResetRefused]_vars

\* C15 amended: as stated, but the stored item is the serialized empty
\* record only when the write did not throw; when it threw, the stored item
\* is the one from before the call.
C15_ResetNeedsConfirmationUnlessQuota ==
    [][lastOp'.op = "reset" =>
          IF lastOp'.obs[1]
          THEN /\ ResetCleared
               /\ storage' = IF quotaExceeded THEN storage ELSE Stringify(EmptyObj)
          ELSE ResetRefused]_vars

\* C15 witness: a confirmed reset has written the empty record and
\* notified two subscribers
C15_Witness ==
    /\ lastOp.op = "reset" /\ lastOp.obs[1] /\ lastOp.ret
    /\ lastOp.saved = 1
    /\ Len(lastOp.notified) = 2
    /\ storage = Stringify(EmptyObj)

\* C16: when the fetch of a module fails (rejection or failure status),
\* loadModuleContent(m, n) resolves with the placeholder content for m and n
\* and leaves the cache as it was; when the fetch succeeds it resolves with
\* the fetched body, not the placeholder.
C16_FailedFetchGivesPlaceholder ==
    [][(lastOp'.op = "settle" /\ lastOp'.obs[1].kind = "module") =>
          /\ ~lastOp'.raised
          /\ IF lastOp'.obs[2] = "ok"
             THEN /\ lastOp'.obs[3].kind = "fetched"
                  /\ lastOp'.obs[3].html \in ContentBodies
             ELSE /\ lastOp'.obs[3].kind = "placeholder"
                  /\ lastOp'.obs[3].mission = lastOp'.obs[1].mission
                  /\ lastOp'.obs[3].module = lastOp'.obs[1].module
                  /\ cache' = cache]_vars

\* C16 witness: the fetch of module 1.1 has failed, the placeholder is on the
\* page and the cache holds nothing for the module
C16_Witness ==
    /\ lastOp.op = "settle"
    /\ lastOp.obs[1] = ModuleFetch(1, 1)
    /\ lastOp.obs[2] = "error"
    /\ lastOp.obs[3] = getPlaceholderContent(1, 1)
    /\ <<1, 1>> \notin DOMAIN cache
    /\ currentPage = ModuleRoute(1, 1)

\* C17: once the cache holds the content of a successful fetch for a module,
\* it holds that same content from then on, and every showModule call for the
\* module renders that content and issues no fetch.
C17_CachedContentIsFinal ==
    [][/\ \A key \in DOMAIN cache : key \in DOMAIN cache' /\ cache'[key] = cache[key]
       /\ lastOp'.op = "showModule" =>
            IF lastOp'.obs[1]
            THEN /\ fetches' = fetches
                 /\ <<currentPage'.mission, currentPage'.module>> \in DOMAIN cache
                 /\ lastOp'.obs[2] = cache[<<currentPage'.mission, currentPage'.module>>]
            ELSE <<fetches'[Len(fetches')].mission, fetches'[Len(fetches')].module>>
                    \notin DOMAIN cache]_vars

\* no script, object, embed or iframe element at any depth
RECURSIVE NoScripts(_)
NoScripts(html) ==
    \A i \in 1..Len(html) :
        /\ html[i].tag \notin {SCRIPT, OBJECT, EMBED, IFRAME}
        /\ NoScripts(html[i].kids)

\* no attribute whose name begins with 'on' at any depth
RECURSIVE NoOnAttributes(_)
NoOnAttributes(html) ==
    \A i \in 1..Len(html) :
        /\ \A j \in 1..Len(html[i].attrs) : ~StartsWithOn(html[i].attrs[j])
        /\ NoOnAttributes(html[i].kids)

\* C18: what sanitizeHTML returns holds no script, object, embed or iframe
\* element and no attribute whose name begins with 'on'.
C18_SanitizedIsClean ==
    mainContent.via = "sanitizeHTML" =>
        NoScripts(mainContent.html) /\ NoOnAttributes(mainContent.html)

\* C19: whatever the router has written into the main content container was
\* passed through sanitizeHTML.
C19_EveryWriteSanitized ==
    mainContent.via \in {"initial", "sanitizeHTML"}

\* C20: navigateModule(m, n, direction) on a module of the curriculum asks
\* showModule for the neighbour of (m, n) in curriculum order in that
\* direction; where there is no neighbour (before 1.1, after 5.3) it asks for
\* nothing and leaves the route, the page and the fetches as they are.  Next
\* leads from each module to the following one, from 1.1 up to 5.3, and
\* Previous leads back from it.
C20_NavigateToNeighbour ==
    [][/\ lastOp'.op = "navigateModule" =>
            IF lastOp'.obs[1]
            THEN /\ lastOp'.obs[2] /\ lastOp'.obs[3]
                 /\ Len(fetches') = Len(fetches) + 1
                 /\ currentPage' = currentPage
            ELSE /\ ~lastOp'.obs[2]
                 /\ UNCHANGED shell
       /\ \A i \in 1..(Len(Curriculum) - 1) :
            LET next == navigateModule(Curriculum[i][1], Curriculum[i][2], 1)
            IN  /\ next.go
                /\ <<next.mission, next.module>> = Curriculum[i + 1]
                /\ navigateModule(next.mission, next.module, -1)
                      = [go |-> TRUE, mission |-> Curriculum[i][1], module |-> Curriculum[i][2]]
       /\ ~navigateModule(5, 3, 1).go
       /\ ~navigateModule(1, 1, -1).go]_vars

\* C20 witness: Next on the page of module 5.3, reached from module 5.2, has
\* asked for nothing
C20_Witness ==
    /\ lastOp.op = "navigateModule"
    /\ ~lastOp.obs[1] /\ ~lastOp.obs[2]
    /\ currentPage = ModuleRoute(5, 3)
    /\ fetches = <<>>

\* C21: at most one mission is expanded in the sidebar at any time;
\* toggleMission(i) on a collapsed mission i of the sidebar leaves i the one
\* expanded mission, on an expanded mission it leaves none expanded,
\* ensureMissionExpanded(i) leaves i the one expanded mission, and so does a
\* showModule that has rendered a module of mission i.
C21_OneMissionExpanded ==
    [][/\ Cardinality(expanded') <= 1
       /\ (lastOp'.op = "toggleMission" /\ lastOp'.obs[1] \in 1..5) =>
             expanded' = IF lastOp'.obs[2] THEN {} ELSE {lastOp'.obs[1]}
       /\ (lastOp'.op = "ensureMissionExpanded" /\ lastOp'.obs[1] \in 1..5) =>
             expanded' = {lastOp'.obs[1]}
       /\ (lastOp'.op \in {"toggleMission", "ensureMissionExpanded"}
             /\ lastOp'.obs[1] \notin 1..5) => expanded' = expanded
       /\ (lastOp'.op = "settle" /\ lastOp'.obs[1].kind = "module") =>
             expanded' = {lastOp'.obs[1].mission}]_vars

\* C21 witness: module 1.1 is on the page, which expanded mission 1, and
\* toggleMission(4) has just expanded mission 4 in its place
C21_Witness ==
    /\ lastOp.op = "toggleMission"
    /\ lastOp.obs = <<4, FALSE>>
    /\ currentPage = ModuleRoute(1, 1)
    /\ expanded = {4}

\* the last operation was a showPage or showModule call running to its end:
\* a fetch settled, or the call had nothing to wait for
NavigationFinished ==
    \/ lastOp.op = "settle"
    \/ lastOp.op = "showPage" /\ ~lastOp.obs[1]
    \/ lastOp.op = "showModule" /\ lastOp.obs[1]

\* what the navigation that has just finished logged in its catch branch
NavigationLog ==
    IF lastOp.op = "settle" THEN lastOp.obs[4]
    ELSE IF lastOp.op = "showModule" THEN lastOp.obs[3]
    ELSE <<>>

\* C22: whenever a showPage or showModule call finishes, with or without a
\* caught exception, the loading indicator is hidden; when no navigation is
\* pending the indicator is hidden; and, fetches settling in the end, a
\* visible indicator is hidden again.
C22_LoadingHiddenAfterNavigation ==
    /\ [](NavigationFinished => ~loading)
    /\ [](fetches = <<>> => ~loading)
    /\ (loading ~> ~loading)

\* C22 witness: the fetch of a module has settled, rendering threw and was
\* caught, nothing is pending and the indicator is hidden
C22_Witness ==
    /\ lastOp.op = "settle"
    /\ lastOp.obs[1].kind = "module"
    /\ lastOp.obs[4] # <<>>
    /\ fetches = <<>>
    /\ ~loading

\* C23: while the fetch of some navigation is pending, the loading indicator
\* is visible.
C23_LoadingShownWhilePending ==
    fetches # <<>> => loading

\* the main content container holds an error message (no write of the router
\* puts one there)
ErrorDisplayed(content) == content.via = "showError"

\* C24: a navigation whose rendering threw does not reject, has logged the
\* exception, and leaves an error message on the screen.
C24_RenderErrorDisplayed ==
    (NavigationFinished /\ NavigationLog # <<>>) =>
        /\ ~lastOp.raised
        /\ Len(NavigationLog) >= 1
        /\ ErrorDisplayed(mainContent)

\* C25: after the checkbox of a module page has changed the completion of
\* the module, the displayed overall percentage equals getOverallProgress()
\* and the missions marked complete are the complete missions.
C25_IndicatorsFollowCheckbox ==
    lastOp.op = "checkbox" =>
        /\ indicators.percent = getOverallProgress(progress)
        /\ indicators.complete =
              {m \in 1..totalMissions : isMissionCompleteIn(progress, NumberToString(m))}

ThemeDisplayed ==
    [][/\ lastOp'.op = "boot" =>
            /\ theme' = IF storedTheme = "light" THEN "light" ELSE "dark"
            /\ storedTheme' = storedTheme
       /\ lastOp'.op = "toggleTheme" =>
            /\ theme \in {"light", "dark"} /\ theme' \in {"light", "dark"}
            /\ theme' # theme
            /\ toggleTheme(theme', storedTheme', ~quotaExceeded).theme = theme
            /\ progress' = progress
            /\ storage' = storage]_vars

C27_FirstIncompleteRecommended ==
    lastOp.op = "getNextRecommendedModule" =>
        LET incomplete == {i \in 1..Len(Curriculum) :
                              ~isModuleCompleteIn(progress,
                                                  NumberToString(Curriculum[i][1]),
                                                  NumberToString(Curriculum[i][2]))}
            returned == lastOp.obs[1]
        IN  IF incomplete = {}
            THEN returned.isNull
            ELSE /\ ~returned.isNull
                 /\ \E i \in incomplete :
                       /\ \A j \in incomplete : i <= j
                       /\ <<returned.mission, returned.module>> = Curriculum[i]

\* C27 witness: missions 1 to 3 and modules 4.1 to 4.3 are complete, module
\* 5.1 is complete as well, and module 4.4 is recommended
C27_Witness ==
    /\ lastOp.op = "getNextRecommendedModule"
    /\ lastOp.obs[1] = Recommended(4, 4)
    /\ isModuleCompleteIn(progress, NumberToString(5), NumberToString(1))

\* C28: loadHomeContent never rejects; when the fetch of the home resource
\* throws or returns a failure status it resolves with the built-in default
\* home content, and when the fetch succeeds, with the fetched text.
C28_HomeFallsBackToDefault ==
    [][(lastOp'.op = "settle" /\ lastOp'.obs[1].kind = "home") =>
          /\ ~lastOp'.raised
          /\ IF lastOp'.obs[2] = "ok"
             THEN /\ lastOp'.obs[3].kind = "fetched"
                  /\ lastOp'.obs[3].html \in ContentBodies
                  /\ lastOp'.obs[3] # getDefaultHomeContent
             ELSE lastOp'.obs[3] = getDefaultHomeContent
          /\ mainContent' = Written(sanitizeHTML(lastOp'.obs[3].html), "sanitizeHTML")
          /\ cache' = cache]_vars

\* C28 witness: the home resource came back with a failure status and the
\* default home content is on the page
C28_Witness ==
    /\ lastOp.op = "settle"
    /\ lastOp.obs[1] = HomeFetch
    /\ lastOp.obs[2] = "status"
    /\ lastOp.obs[3] = getDefaultHomeContent
    /\ mainContent = Written(sanitizeHTML(getDefaultHomeContent.html), "sanitizeHTML")
    /\ currentPage = PageRoute("home")

\* the stored document is a record of curriculum slots with numbers for
\* timestamps, of which some are valid and some are not
BadTimestampsAmongValid(s, clock) ==
    /\ s.kind = "object"
    /\ \A mk \in DOMAIN s.obj :
        /\ s.obj[mk].isObj
        /\ \A nk \in DOMAIN s.obj[mk].mods :
            /\ InCurriculum(mk, nk)
            /\ s.obj[mk].mods[nk].isNum
    /\ \E mk \in DOMAIN s.obj : \E nk \in DOMAIN s.obj[mk].mods :
          ~isValidTimestamp(s.obj[mk].mods[nk], clock)
    /\ \E mk \in DOMAIN s.obj : \E nk \in DOMAIN s.obj[mk].mods :
          isValidTimestamp(s.obj[mk].mods[nk], clock)

\* C30: init() on a stored record in which some entries have an invalid
\* timestamp and the others are valid removes the invalid entries only:
\* every valid entry is still complete with its timestamp, no other entry is
\* in the record, and the stored item is the cleaned record.
C30_BadTimestampDroppedAlone ==
    [][(lastOp'.op = "init" /\ BadTimestampsAmongValid(storage, now)) =>
          /\ \A sl \in Slots :
                IF PersistedEntry(storage, sl[1], sl[2], now)
                THEN /\ isModuleCompleteIn(progress', sl[1], sl[2])
                     /\ progress'[sl[1]][sl[2]] = storage.obj[sl[1]].mods[sl[2]].v
                ELSE ~isModuleCompleteIn(progress', sl[1], sl[2])
          /\ storage' = Stringify(progress')]_vars

(***************************************************************************)
(* SpecTimestamp: isValidTimestamp is asked about values around zero, the  *)
(* floor date and the current time while modules are ticked and the clock  *)
(* runs.                                                                   *)
(***************************************************************************)
TimestampInputs == {Num(v) : v \in (0 - 1)..(MaxNow + 1)} \cup {NotNum}

\* isValidTimestamp(timestamp); obs is <<the value is a number, it is
\* positive, it is not later than the current time, it is not earlier than
\* the floor date, it is the floor date, it is the current time>>
IsValidTimestamp(timestamp) ==
    /\ lastOp' = Op("isValidTimestamp",
                    [Frame(progress, storage) EXCEPT
                        !.ret = isValidTimestamp(timestamp, now)],
                    <<timestamp.isNum, timestamp.v > 0, timestamp.v <= now,
                      timestamp.v >= FloorDate, timestamp.v = FloorDate,
                      timestamp.v = now>>)
    /\ UNCHANGED <<progress, storage, listeners, now, getItemPatched, quotaExceeded>>
    /\ UNCHANGED shell

TimestampNext ==
    \/ \E timestamp \in TimestampInputs : IsValidTimestamp(timestamp)
    \/ \E m \in 1..2, n \in 1..2, checked \in BOOLEAN : CheckboxChange(m, n, checked)
    \/ Tick

SpecTimestamp == SlotsInit /\ [][TimestampNext]_vars

\* C31: isValidTimestamp(t) is true exactly for a number t that is positive,
\* not later than the current time and not earlier than the floor date, so
\* the floor date itself and the current time itself are accepted; and every
\* timestamp that setModuleCompletion(m, n, true) has stored passes
\* isValidTimestamp.
C31_TimestampWithinClosedRange ==
    /\ lastOp.op = "isValidTimestamp" =>
          (lastOp.ret <=> (lastOp.obs[1] /\ lastOp.obs[2] /\ lastOp.obs[3]
                            /\ lastOp.obs[4]))
    /\ \A mk \in DOMAIN progress : \A nk \in DOMAIN progress[mk] :
          isValidTimestamp(Num(progress[mk][nk]), now)

\* C32: when a showModule(m, n) call has run to its end without a caught
\* exception, whether it rendered from the cache or after its fetch settled,
\* currentPage is the route of module (m, n) and mission m is the one and
\* only expanded mission of the sidebar, whatever was expanded before.
C32_ModuleShownAndExpanded ==
    /\ (lastOp.op = "settle" /\ lastOp.obs[1].kind = "module" /\ lastOp.obs[4] = <<>>) =>
          /\ currentPage = ModuleRoute(lastOp.obs[1].mission, lastOp.obs[1].module)
          /\ expanded = {lastOp.obs[1].mission}
    /\ (lastOp.op = "showModule" /\ lastOp.obs[1] /\ lastOp.obs[3] = <<>>) =>
          /\ currentPage = lastOp.obs[4]
          /\ expanded = {lastOp.obs[4].mission}

\* C32 witness: module 4.4 was rendered from the cache without an exception,
\* mission 4 is the expanded one.
C32_Witness ==
    /\ lastOp.op = "showModule"
    /\ lastOp.obs[1]
    /\ lastOp.obs[3] = <<>>
    /\ lastOp.obs[4] = ModuleRoute(4, 4)
    /\ currentPage = ModuleRoute(4, 4)
    /\ expanded = {4}

\* C33: on a module page that showModule has rendered, Previous is disabled
\* exactly when navigateModule(m, n, -1) asks for no module and Next is
\* disabled exactly when navigateModule(m, n, 1) asks for no module; over the
\* curriculum that is Previous at module 1.1 only and Next at module 5.3
\* only.
C33_ButtonsDisabledAtEnds ==
    /\ (lastOp.op = "settle" /\ lastOp.obs[1].kind = "module") =>
          LET mission == lastOp.obs[1].mission
              module == lastOp.obs[1].module
              buttons == lastOp.obs[5]
          IN  /\ buttons.present
              /\ buttons.prev <=> ~navigateModule(mission, module, 0 - 1).go
              /\ buttons.next <=> ~navigateModule(mission, module, 1).go
              /\ buttons.prev <=> <<mission, module>> = Curriculum[1]
              /\ buttons.next <=> <<mission, module>> = Curriculum[Len(Curriculum)]
    /\ \A i \in 1..Len(Curriculum) :
          LET buttons == updateNavigationButtons(Curriculum[i][1], Curriculum[i][2])
          IN  /\ buttons.prev <=> i = 1
              /\ buttons.next <=> i = Len(Curriculum)

\* C33 witness: the page of module 5.3 was rendered with Next disabled and
\* Previous enabled
C33_Witness ==
    /\ lastOp.op = "settle"
    /\ lastOp.obs[1] = ModuleFetch(5, 3)
    /\ lastOp.obs[5].next
    /\ ~lastOp.obs[5].prev
    /\ currentPage = ModuleRoute(5, 3)

(***************************************************************************)
(* Derived views of the record (progress.js).                              *)
(***************************************************************************)
\* getMissionProgress(): per mission the completed count, the module count
\* and the rounded percentage
getMissionProgress(p) ==
    [mission \in 1..totalMissions |->
        LET maxModules == modulesPerMission[mission]
            completedModules ==
                Cardinality({module \in 1..maxModules :
                    isModuleCompleteIn(p, NumberToString(mission), NumberToString(module))})
        IN  [completed |-> completedModules,
             total |-> maxModules,
             percentage |-> MathRoundPercent(completedModules, maxModules)]]

\* getProgress(): a copy of the record
getProgress(p) == [mission \in DOMAIN p |-> p[mission]]

\* the greatest timestamp of the record, 0 for the empty record
LastTimestamp(p) ==
    LET all == UNION {{p[mk][nk] : nk \in DOMAIN p[mk]} : mk \in DOMAIN p}
    IN  IF all = {} THEN 0 ELSE CHOOSE t \in all : \A u \in all : u <= t

\* getAnalytics(); lastActivity is null where no timestamp is above 0
getAnalytics(p) ==
    [overallProgress |-> getOverallProgress(p),
     missionProgress |-> getMissionProgress(p),
     completedModules |-> getCompletedModules(p),
     totalModules |-> getTotalModules,
     startedMissions |-> Cardinality(DOMAIN p),
     lastActivity |-> IF LastTimestamp(p) > 0
                      THEN [isNull |-> FALSE, v |-> LastTimestamp(p)]
                      ELSE [isNull |-> TRUE, v |-> 0],
     studyStreak |-> 0]

\* a query of the store: it returns value and assigns nothing
Query(name, value) ==
    /\ lastOp' = Op(name, Frame(progress, storage), <<value>>)
    /\ UNCHANGED <<progress, storage, listeners, now, getItemPatched, quotaExceeded>>
    /\ UNCHANGED shell

IsModuleComplete(mission, module) ==
    Query("isModuleComplete", isModuleCompleteIn(progress, mission, module))

GetCompletedModules ==
    Query("getCompletedModules", getCompletedModules(progress))

GetMissionProgress ==
    Query("getMissionProgress", getMissionProgress(progress))

GetProgress ==
    Query("getProgress", getProgress(progress))

ExportProgress ==
    Query("exportProgress", exportProgress(progress, now))

\* a getAnalytics that stores what it computed and tells the subscribers
GetAnalytics_saving ==
    /\ Commit("getAnalytics",
              emit(saveProgress(Frame(progress, storage), ~quotaExceeded), listeners),
              <<getAnalytics(progress)>>)
    /\ UNCHANGED <<listeners, now, getItemPatched, quotaExceeded>>
    /\ UNCHANGED shell

GetAnalytics ==
    Query("getAnalytics", getAnalytics(progress))

(***************************************************************************)
(* SpecDerived: with a subscriber or none, modules of missions 1 and 4 are *)
(* ticked and unticked, records are imported, the record is reset and      *)
(* loaded again, and every query of the store is asked in between.         *)
(***************************************************************************)
Queries ==
    {"isModuleComplete", "isMissionComplete", "getOverallProgress",
     "getCompletedModules", "getMissionProgress", "getNextRecommendedModule",
     "getAnalytics", "getProgress", "exportProgress"}

DerivedNext ==
    \/ \E m \in {1, 4}, n \in {1, 4}, checked \in BOOLEAN : CheckboxChange(m, n, checked)
    \/ \E progressData \in EventsPayloads : ImportProgress(progressData)
    \/ \E confirm \in BOOLEAN : ResetProgress(confirm)
    \/ TrackerInit
    \/ On("cb1")
    \/ \E mission \in {K(1), K(4)}, module \in {K(1), K(4)} :
          IsModuleComplete(mission, module)
    \/ \E mission \in {K(1), K(4), K(6)} : IsMissionComplete(mission)
    \/ GetOverallProgress
    \/ GetCompletedModules
    \/ GetMissionProgress
    \/ GetNextRecommendedModule
    \/ GetAnalytics
    \/ GetProgress
    \/ ExportProgress

SpecDerived == SlotsInit /\ [][DerivedNext]_vars

C35_StoredIsSerializedRecord ==
    [][/\ (lastOp'.op = "init" /\ storage.kind # "absent" /\ ~quotaExceeded) =>
            storage' = Stringify(progress')
       /\ (lastOp'.op \in Mutators /\ lastOp'.ret /\ ~quotaExceeded) =>
            storage' = Stringify(progress')]_vars

\* C36: when a navigation was requested while the fetch of an earlier one
\* was pending, and the later one has finished first and rendered its page,
\* then the earlier one finishing leaves the page and currentPage of the
\* later request in place: after both, the later request is what is shown.
C36_LastRequestWins ==
    [][(/\ lastOp.op = "settle"
        /\ lastOp.obs[6]
        /\ lastOp.obs[4] = <<>>
        /\ Len(fetches) = 1
        /\ lastOp'.op = "settle") =>
          /\ currentPage' = currentPage
          /\ mainContent' = mainContent]_vars

\* the route of the call that awaited a fetch
RouteOfCall(call) ==
    IF call.kind = "home" THEN PageRoute("home")
    ELSE ModuleRoute(call.mission, call.module)

\* C37: whenever a navigation has finished and no handler is running,
\* currentPage names the route whose content was written into the main
\* container last: after a showModule or showPage call has written its page,
\* with other fetches still in flight or not and also when the call ended in
\* its catch block, currentPage is the route of that call.
C37_RouteNamesWrittenContent ==
    /\ lastOp.op = "settle" => currentPage = RouteOfCall(lastOp.obs[1])
    /\ (lastOp.op = "showModule" /\ lastOp.obs[1]) => currentPage = lastOp.obs[4]

\* C38: two calls of loadModuleContent for the same module of which the
\* second starts before the fetch of the first has settled issue one fetch
\* between them: no two fetches for the same module are in flight at the
\* same time.
C38_OneFetchPerModule ==
    \A i \in 1..Len(fetches) : \A j \in 1..Len(fetches) :
        (i # j /\ fetches[i].kind = "module") => fetches[i] # fetches[j]

(***************************************************************************)
(* SpecDispatch: after the page load, routes are dispatched through        *)
(* data-route links, navigateToMission, navigateToModule and the Previous  *)
(* button, with module numbers inside and outside the curriculum.          *)
(***************************************************************************)
\* the mission and module texts of data-route="module-<mission>-<module>"
DataRoutes == {<<K(1), K(2)>>, <<K(9), K(1)>>}

\* the delegated click handler on a data-route link of a module
DataRouteClick(missionText, moduleText) ==
    ShowModule(ParseInt(missionText).v, ParseInt(moduleText).v, "ok")

\* navigateToMission(mission)
NavigateToMission(mission) ==
    ShowModule(mission, 1, "ok")

\* navigateToModule(mission, module)
NavigateToModule(mission, module) ==
    ShowModule(mission, module, "ok")

CurriculumSlots == {Curriculum[i] : i \in 1..Len(Curriculum)}

DispatchNext ==
    \/ \E route \in DataRoutes :
          /\ Len(fetches) < MaxFetches
          /\ DataRouteClick(route[1], route[2])
    \/ /\ Len(fetches) < MaxFetches
       /\ NavigateToMission(6)
    \/ /\ Len(fetches) < MaxFetches
       /\ NavigateToModule(5, 4)
    \/ /\ Len(fetches) < MaxFetches
       /\ currentPage.kind = "module"
       /\ <<currentPage.mission, currentPage.module>> \in CurriculumSlots
       /\ NavigateModule(currentPage.mission, currentPage.module, 0 - 1, "ok")
    \/ \E index \in 1..Len(fetches), outcome \in PlainOutcomes :
          FetchSettles(index, outcome, "ok")

SpecDispatch == ContentInit /\ [][DispatchNext]_vars

\* C39: currentPage is a named page or the route of a module of the
\* curriculum, every key of the content cache is a module of the curriculum,
\* and every module fetch in flight is for a module of the curriculum,
\* whatever routes were dispatched.
C39_RoutesInsideCurriculum ==
    /\ currentPage.kind = "module" =>
          <<currentPage.mission, currentPage.module>> \in CurriculumSlots
    /\ \A key \in DOMAIN cache : key \in CurriculumSlots
    /\ \A i \in 1..Len(fetches) :
          fetches[i].kind = "module" =>
              <<fetches[i].mission, fetches[i].module>> \in CurriculumSlots

(***************************************************************************)
(* SpecReentrant: subscribers that unsubscribe themselves, unsubscribe     *)
(* another callback or subscribe one from inside their callback come and   *)
(* go while a module is ticked and unticked.                               *)
(***************************************************************************)
ReentrantSubscribers == {"cb1", "cbOffSelf", "cbOffCb1", "cbOnCb1"}

\* the change handler of the checkbox with subscribers that call on and off
\* from inside their callbacks
CheckboxChangeNotifying(m, n, checked) ==
    LET st == setModuleCompletion(Frame(progress, storage), listeners,
                                  NumberToString(m), NumberToString(n), checked,
                                  now, ~quotaExceeded)
    IN  /\ Commit("checkbox", st, <<checked>>)
        /\ listeners' = IF st.ret THEN AfterEmit(listeners) ELSE listeners
        /\ UNCHANGED <<now, getItemPatched, quotaExceeded>>
        /\ UNCHANGED shell

ReentrantNext ==
    \/ \E callback \in ReentrantSubscribers : On(callback)
    \/ \E callback \in ReentrantSubscribers : Off(callback)
    \/ \E checked \in BOOLEAN : CheckboxChangeNotifying(1, 1, checked)

SpecReentrant == SlotsInit /\ [][ReentrantNext]_vars

\* how many times the callback occurs in the sequence
Occurrences(s, callback) == Cardinality({i \in 1..Len(s) : s[i] = callback})

\* C40: a notification calls every callback that was registered when it
\* started exactly once per registration, also when callbacks call off for
\* themselves or for another callback or call on from inside; and a callback
\* that was registered once and is unsubscribed with off is not in the array
\* afterwards.
C40_EachSubscriberOnce ==
    [][/\ (lastOp'.op = "checkbox" /\ lastOp'.ret) =>
            \A i \in 1..Len(listeners) :
                Occurrences([j \in 1..Len(lastOp'.notified) |-> lastOp'.notified[j].cb],
                            listeners[i])
                   = Occurrences(listeners, listeners[i])
       /\ (lastOp'.op = "off" /\ Occurrences(listeners, lastOp'.obs[1]) <= 1) =>
            Occurrences(listeners', lastOp'.obs[1]) = 0]_vars

====
